---- MODULE Spec2Model ----
(***************************************************************************)
(* The candle store of houssamboudiar/freqtrade: one Redis list            *)
(* crypto:<symbol>:<timeframe>:history and the three programs that write   *)
(* it: the bulk collector (scripts/binance_data_collector.py), the         *)
(* integrity checker and gap filler (scripts/data_integrity_checker.py)    *)
(* and the live updater (scripts/websocket_updater.py).  The programs are  *)
(* separate processes; each Redis command is one atomic step.              *)
(*                                                                         *)
(* Time is counted in seconds from 2017-08-17T00:00:00 UTC, the start of   *)
(* the updater's full-history fetch.  A stored item is the JSON text of a  *)
(* candle dict; the model keeps the dict's timestamp and prices.           *)
(***************************************************************************)
EXTENDS Integers, Sequences, FiniteSets, TLC

VARIABLES
    tf,          \* the timeframe of the key: "1m", "1h" or "1d"
    klines,      \* the exchange: what it holds for each candle slot
    history,     \* the Redis list crypto:<symbol>:<tf>:history
    ttl,         \* the expiry of the history key in seconds, 0 when it has none
    co_pc,       \* collector: position in process_symbol_interval / store_data
    co_df,       \* collector: the fetched DataFrame (rows in order)
    co_old,      \* collector: the list as it was when the pipeline's DEL ran
    co_runs,     \* collector: runs started
    co_ret,      \* collector: what process_symbol_interval returned for the key
    ck_pc,       \* checker: position in run_gap_filling_mode / fill_gap
    report,      \* checker: the dict check_symbol_integrity returned last
    ck_gaps,     \* checker: gaps of the report still to be handed to fill_gap
    ck_missing,  \* checker: fill_gap's missing_candles
    ck_existing, \* checker: fill_gap's parsed existing_data
    ck_all,      \* checker: fill_gap's all_candles after the sort
    ck_start,    \* checker: the list as it was when fill_gap was entered
    ck_ret,      \* checker: what the last fill_gap returned ("none" before)
    ck_filled,   \* checker: filled_count of fill_all_gaps_for_symbol
    ck_runs,     \* checker: integrity checks started
    ck_prev,     \* checker: the list, the gaps and the filled count the run before left
    ws_pc,       \* updater: position in main / fill_gaps_on_startup / process_kline
    ws_data,     \* updater: fill_gaps_on_startup's data (items read by LRANGE)
    ws_new,      \* updater: fill_gaps_on_startup's all_candles to write
    ws_gaps,     \* updater: fill_gaps_on_startup's gaps
    ev,          \* updater: the kline of the message being processed
    lv_last,     \* updater: update_redis' existing_data (LRANGE -1 -1)
    errors,      \* updater: stats['errors']
    processed,   \* updater: stats['messages_processed']
    received,    \* updater: stats['messages_received']
    appended,    \* the candles update_redis has pushed (history of the run)
    data_gaps,   \* updater: stats['data_gaps'][symbol] of the key's symbol
    gap_stats,   \* checker: gaps and missing candles counted so far, per timeframe
    symbols,     \* updater: self.symbols of the manager main() runs
    running,     \* updater: the running flag of each of the two managers
    signalled,   \* updater: shutdown_event is set
    shutdown_starts, \* updater: graceful_shutdown() coroutines handed to the loop
    main_pc,     \* updater: position of the task of main()
    conn_pc,     \* updater: position of connect() / create_connection()
    tasks,       \* updater: state of monitor_connection and run_periodic_tasks
    sd_pc,       \* updater: position of the task of graceful_shutdown()
    retry_count, \* updater: create_connection's retry_count
    delay,       \* updater: create_connection's delay of the sleep in progress
    failures,    \* consecutive failed attempts of the connection since it last succeeded
    websocket,   \* updater: the WebSocket conn_1 of the manager main() runs
    redis_conns, \* updater: the two clients connect_to_redis() returned
    loop_state,  \* updater: the event loop of __main__
    bt_pc,       \* batch: position of parallel_process_symbols / run_full_integrity_check
    bt_futures,  \* batch: future_to_task entries not yet completed
    completed_tasks, \* batch: parallel_process_symbols' completed_tasks
    success_count,   \* batch: parallel_process_symbols' success_count
    all_results, \* batch: run_full_integrity_check's all_results
    dv_pc,       \* derivation: position (a list stored, a gap of it filled)
    dv_path,     \* derivation: the write path that derived last
    dv_frame,    \* derivation: timestamps of the DataFrame handed to calculate_emas
    dv_rows,     \* derivation: the rows of that DataFrame with their ema fields
    dv_stored,   \* derivation: the records of the list, with their ema fields
    dv_all,      \* derivation: fill_gap's all_candles as committed
    redis_up,    \* checker: the Redis client of the checker answers
    em_store,    \* EMA manager: Redis db of the manager, key -> text and expiry time
    em_now,      \* EMA manager: seconds since the manager started
    em_saved,    \* EMA manager: per (symbol, timeframe), the data last stored and when
    em_calls,     \* EMA manager: save_to_redis calls made
    cl_pc,       \* cleaner: where main() is
    cl_db,       \* cleaner: the keys of Redis database 0
    cl_keys,     \* cleaner: "keys" of main(), the result of the first scan
    cl_choice,   \* cleaner: the text entered at "Enter choice (1/2/3): "
    cl_confirm   \* cleaner: the text entered at the confirmation prompt

vars == <<tf, klines, history, ttl, co_pc, co_df, co_old, co_runs, co_ret,
          ck_pc, report, ck_gaps, ck_missing, ck_existing, ck_all, ck_start,
          ck_ret, ck_filled, ck_runs, ck_prev,
          ws_pc, ws_data, ws_new, ws_gaps, ev, lv_last, errors, processed,
          received, appended, data_gaps, gap_stats,
          symbols, running, signalled, shutdown_starts, main_pc, conn_pc, tasks, sd_pc,
          retry_count, delay, failures, websocket, redis_conns, loop_state,
          bt_pc, bt_futures, completed_tasks, success_count, all_results,
          dv_pc, dv_path, dv_frame, dv_rows, dv_stored, dv_all, redis_up,
          em_store, em_now, em_saved, em_calls,
          cl_pc, cl_db, cl_keys, cl_choice, cl_confirm>>

keyVars == <<tf, klines>>
storeVars == <<history, ttl>>
coVars == <<co_pc, co_df, co_old, co_runs, co_ret>>
ckVars == <<ck_pc, report, ck_gaps, ck_missing, ck_existing, ck_all, ck_start,
            ck_ret, ck_filled, ck_runs, ck_prev>>
wsVars == <<ws_pc, ws_data, ws_new, ws_gaps, ev, lv_last, errors, processed,
            received, appended>>
plVars == <<symbols, running, signalled, shutdown_starts, main_pc, conn_pc, tasks, sd_pc,
            retry_count, delay, failures, websocket, redis_conns, loop_state>>
btVars == <<bt_pc, bt_futures, completed_tasks, success_count, all_results>>
stVars == <<data_gaps, gap_stats>>
fnVars == <<dv_pc, dv_path, dv_frame, dv_rows, dv_stored, dv_all>>
envVars == <<redis_up>>

clVars == <<cl_pc, cl_db, cl_keys, cl_choice, cl_confirm>>
emVars == <<em_store, em_now, em_saved, em_calls>>

----------------------------------------------------------------------------
(* Bounds of the model *)

MaxSlot == 3          \* candle slots 0..MaxSlot exist on the timeline
MaxCollectorRuns == 1 \* runs of the collector on the key
MaxChecks == 1        \* runs of the checker's gap-filling mode on the key
MaxEvents == 2        \* messages the live feed delivers for the key
MaxLen == 4           \* longest list a detector-only run starts from
MaxSymbols == 2       \* symbols a batch is run on
MaxRefills == 2       \* runs of the gap-filling mode in succession on the key
MaxFailures == 7      \* consecutive failed attempts of the stream connection
MaxRows == 8          \* rows a DataFrame handed to calculate_emas can have

Slots == 0 .. MaxSlot
Timeframes == {"1m", "1h", "1d"}

----------------------------------------------------------------------------
(* Time, candles and the exchange *)

\* get_expected_interval / expected_delta / interval_timedelta, in seconds
get_expected_interval(timeframe) ==
    CASE timeframe = "1m" -> 60
      [] timeframe = "1h" -> 3600
      [] timeframe = "1d" -> 86400

Interval == get_expected_interval(tf)

\* open time of slot k; candles of the exchange are interval-aligned
SlotTime(k) == k * Interval

\* datetime.now(): the last slot is the candle still open
Now == SlotTime(MaxSlot) + (Interval \div 2)

\* what the exchange delivers for a slot: a sound candle or one with high < low
Shapes == {"ok", "bad"}

Candle(t, shape) ==
    IF shape = "ok"
    THEN [timestamp |-> t, open |-> 2, high |-> 3, low |-> 1, close |-> 2]
    ELSE [timestamp |-> t, open |-> 2, high |-> 1, low |-> 3, close |-> 2]

\* process_kline's "Data validation checks"
PriceIntegrity(k) ==
    /\ k.low <= k.close /\ k.close <= k.high
    /\ k.low <= k.open /\ k.open <= k.high

RECURSIVE KlinesFrom(_, _, _)
KlinesFrom(k, start_ms, end_ms) ==
    IF k > MaxSlot THEN << >>
    ELSE IF klines[k] # "none" /\ start_ms <= SlotTime(k) /\ SlotTime(k) <= end_ms
         THEN <<Candle(SlotTime(k), klines[k])>> \o KlinesFrom(k + 1, start_ms, end_ms)
         ELSE KlinesFrom(k + 1, start_ms, end_ms)

\* client.get_historical_klines(symbol, interval, start_str, end_str): the
\* klines whose open time lies in [start, end], oldest first
get_historical_klines(start_ms, end_ms) == KlinesFrom(0, start_ms, end_ms)

----------------------------------------------------------------------------
(* Lists of candles *)

Range(s) == {s[i] : i \in 1 .. Len(s)}
Last(s) == s[Len(s)]
Front(s) == SubSeq(s, 1, Len(s) - 1)
Timestamps(s) == [i \in 1 .. Len(s) |-> s[i].timestamp]

RECURSIVE InsertByTimestamp(_, _)
InsertByTimestamp(c, s) ==
    IF s = << >> THEN <<c>>
    ELSE IF Last(s).timestamp <= c.timestamp THEN Append(s, c)
         ELSE Append(InsertByTimestamp(c, Front(s)), Last(s))

RECURSIVE SortByTimestamp(_)
\* list.sort(key=timestamp): stable, equal timestamps keep their order
SortByTimestamp(s) ==
    IF s = << >> THEN << >>
    ELSE InsertByTimestamp(Last(s), SortByTimestamp(Front(s)))

StrictlyIncreasing(s) ==
    \A i \in 1 .. Len(s) - 1 : s[i].timestamp < s[i + 1].timestamp

----------------------------------------------------------------------------
(* The gap detector of the integrity checker *)

\* format_gap_info counting both ends of the gap
format_gap_info_inclusive(gap_start, gap_end) ==
    [start_time |-> gap_start,
     end_time |-> gap_end,
     missing_candles |-> ((gap_end - gap_start) \div Interval) + 1]

\* DataIntegrityChecker.format_gap_info
format_gap_info(gap_start, gap_end) ==
    [start_time |-> gap_start,
     end_time |-> gap_end,
     missing_candles |-> (gap_end - gap_start) \div Interval]

RECURSIVE ScanFrom(_, _)
ScanFrom(candles, i) ==
    IF i > Len(candles) THEN << >>
    ELSE LET current_time == candles[i].timestamp
             previous_time == candles[i - 1].timestamp
             expected_time == previous_time + Interval
         IN  IF current_time > expected_time
             THEN <<format_gap_info(previous_time + Interval, current_time)>>
                      \o ScanFrom(candles, i + 1)
             ELSE ScanFrom(candles, i + 1)

\* the loop started one pair late: for i in range(2, len(candles))
CheckForGaps_skip_first(candles) == ScanFrom(candles, 3)

\* check_symbol_integrity's "Check for gaps" loop: for i in range(1, len(candles))
CheckForGaps(candles) == ScanFrom(candles, 2)

\* first_candle / last_candle of a report that has none
None == 0 - 1

\* Items of a list that are not json.dumps of a candle: text that json.loads
\* rejects (json.JSONDecodeError: the item is skipped), and JSON that has no
\* 'timestamp' to read
InvalidJson == [json |-> "invalid"]
NoTimestamp == [json |-> "no timestamp"]
IsCandle(item) == "timestamp" \in DOMAIN item

\* an item handler that catches every exception
EscapesItemHandler_caught(item) == FALSE

\* candle['timestamp'] raises an exception that "except json.JSONDecodeError"
\* does not catch: it leaves the loop for the outer "except Exception"
EscapesItemHandler(item) == ~IsCandle(item) /\ item.json = "no timestamp"

\* the candles of a span counted without its first
expected_total_candles_exclusive(total_duration) == total_duration \div Interval

\* check_symbol_integrity: int(total_duration / expected_interval) + 1
expected_total_candles(total_duration) == (total_duration \div Interval) + 1

\* check_symbol_integrity: (actual_candles / expected_total_candles) * 100,
\* kept as the fraction it is: numerator and denominator
coverage_percentage(actual_candles, expected) ==
    IF expected > 0 THEN <<actual_candles * 100, expected>> ELSE <<0, 1>>

\* check_symbol_integrity's "except Exception" return
ErrorReport ==
    [status |-> "ERROR", total_candles |-> 0, expected_candles |-> 0,
     gaps |-> << >>, first_candle |-> None, last_candle |-> None]

\* check_symbol_integrity's "if not candles" return
InvalidDataReport ==
    [status |-> "INVALID_DATA", total_candles |-> 0, expected_candles |-> 0,
     gaps |-> << >>, first_candle |-> None, last_candle |-> None]

\* DataIntegrityChecker.check_symbol_integrity on the items LRANGE returned.
\* Every item a writer of this repository pushes is json.dumps of a candle;
\* the other two kinds of item reach a list only from outside.
check_symbol_integrity(data) ==
    IF data = << >>
    THEN [status |-> "NO_DATA", total_candles |-> 0, expected_candles |-> 0,
          gaps |-> << >>, first_candle |-> None, last_candle |-> None]
    ELSE IF \E i \in 1 .. Len(data) : EscapesItemHandler(data[i])
    THEN ErrorReport
    ELSE LET candles == SortByTimestamp(SelectSeq(data, IsCandle))
             gaps == CheckForGaps(candles)
             first_candle == candles[1].timestamp
             last_candle == Last(candles).timestamp
             total_duration == last_candle - first_candle
         IN  IF candles = << >>
             THEN InvalidDataReport
             ELSE [status |-> IF gaps # << >> THEN "GAPS_FOUND" ELSE "INTACT",
                   total_candles |-> Len(candles),
                   expected_candles |-> expected_total_candles(total_duration),
                   gaps |-> gaps,
                   first_candle |-> first_candle,
                   last_candle |-> last_candle]

\* check_symbol_integrity, "Update statistics": the gaps of a result are
\* added to the counters of its timeframe
AddGapStats(stats, timeframe, result) ==
    LET missing[i \in 0 .. Len(result.gaps)] ==
            IF i = 0 THEN 0 ELSE missing[i - 1] + result.gaps[i].missing_candles
    IN  [stats EXCEPT ![timeframe] =
            [gaps |-> @.gaps + Len(result.gaps),
             missing_candles |-> @.missing_candles + missing[Len(result.gaps)]]]

NoReport ==
    [status |-> "NONE", total_candles |-> 0, expected_candles |-> 0,
     gaps |-> << >>, first_candle |-> None, last_candle |-> None]

----------------------------------------------------------------------------
(* Retention periods, in seconds *)

OneYear == 31536000      \* 365 * 24 * 60 * 60
SevenDays == 604800      \* 7 * 24 * 60 * 60
SixMonths == 15552000    \* 180 * 24 * 60 * 60

\* store_data's "Set expirations" for the history key
HistoryRetention(interval) == IF interval = "1m" THEN SevenDays ELSE SixMonths

----------------------------------------------------------------------------
(* The collector: process_symbol_interval and store_data.  The pipeline is   *)
(* built with transaction=False: its DEL and RPUSH reach Redis as separate   *)
(* commands, and commands of other clients may run between them.             *)

\* a store_data whose pipeline is executed whatever the frame holds
PipelineReached_always(df) == TRUE

\* store_data: df.iloc[-1] of an empty frame raises IndexError inside the
\* "with" block, before pipe.execute(): the queued commands are dropped
PipelineReached(df) == df # << >>

\* fetch_historical_data, calculate_emas, calculate_volume_metrics and the
\* part of store_data that only queues commands.  When the fetch raises, or
\* the frame is empty, nothing is sent to Redis and process_symbol_interval
\* returns (False, ...) from its "except Exception".
CollectorFetch ==
    /\ co_pc = "idle"
    /\ co_runs < MaxCollectorRuns
    /\ co_runs' = co_runs + 1
    /\ \E raises \in BOOLEAN :
          LET df == IF raises THEN << >>
                    ELSE get_historical_klines(Now - SixMonths, Now)
          IN  /\ co_df' = df
              /\ IF ~raises /\ PipelineReached(df)
                 THEN /\ co_pc' = "execute"
                      /\ co_ret' = "none"
                 ELSE /\ co_pc' = "idle"
                      /\ co_ret' = "False"
    /\ UNCHANGED <<co_old, keyVars, plVars, btVars, stVars, fnVars, envVars, clVars, emVars, storeVars, ckVars, wsVars>>

\* pipe.execute(): DEL history_key
CollectorDelete ==
    /\ co_pc = "execute"
    /\ co_old' = history
    /\ history' = << >>
    /\ ttl' = 0
    /\ co_pc' = "rpush"
    /\ UNCHANGED <<co_df, co_runs, co_ret, keyVars, plVars, btVars, stVars, fnVars, envVars, clVars, emVars, ckVars, wsVars>>

\* pipe.execute(): RPUSH history_key *data_records, HSET latest, EXPIRE;
\* process_symbol_interval returns (True, ...)
CollectorRpush ==
    /\ co_pc = "rpush"
    /\ history' = history \o co_df
    /\ ttl' = HistoryRetention(tf)
    /\ co_pc' = "idle"
    /\ co_ret' = "True"
    /\ UNCHANGED <<co_df, co_old, co_runs, keyVars, plVars, btVars, stVars, fnVars, envVars, clVars, emVars, ckVars, wsVars>>

Collector == CollectorFetch \/ CollectorDelete \/ CollectorRpush

----------------------------------------------------------------------------
(* The checker: run_full_integrity_check, run_gap_filling_mode,              *)
(* fill_all_gaps_for_symbol and fill_gap                                     *)

\* fill_gap has returned ret: fill_all_gaps_for_symbol counts it and goes on
\* to the next gap, or returns when none is left
FillGapReturns(ret) ==
    /\ ck_ret' = ret
    /\ ck_filled' = IF ret = "True" THEN ck_filled + 1 ELSE ck_filled
    /\ ck_gaps' = Tail(ck_gaps)
    /\ ck_pc' = IF Tail(ck_gaps) = << >> THEN "idle" ELSE "fill"

\* a check that writes its sorted candles back to the key
RunFullIntegrityCheck_sorting_in_place ==
    /\ ck_pc = "idle"
    /\ ck_runs < MaxChecks
    /\ ck_runs' = ck_runs + 1
    /\ report' = IF redis_up THEN check_symbol_integrity(history)
                  ELSE ErrorReport
    /\ history' = SortByTimestamp(SelectSeq(history, IsCandle))
    /\ gap_stats' = AddGapStats(gap_stats, tf, report')
    /\ UNCHANGED <<ttl, ck_pc, ck_gaps, ck_filled, ck_missing, ck_existing, ck_all,
                   ck_start, ck_prev, ck_ret, keyVars, plVars, btVars, data_gaps,
                   fnVars, envVars, clVars, emVars, coVars, wsVars>>

\* run_full_integrity_check: check_symbol_integrity, the report is kept.
\* An LRANGE that raises is caught by check_symbol_integrity's "except".
RunFullIntegrityCheck ==
    /\ ck_pc = "idle"
    /\ ck_runs < MaxChecks
    /\ ck_runs' = ck_runs + 1
    /\ report' = IF redis_up THEN check_symbol_integrity(history)
                  ELSE ErrorReport
    /\ gap_stats' = AddGapStats(gap_stats, tf, report')
    /\ UNCHANGED <<ck_pc, ck_gaps, ck_filled, ck_missing, ck_existing, ck_all,
                   ck_start, ck_prev, ck_ret, keyVars, plVars, btVars, data_gaps, fnVars, envVars, clVars, emVars, storeVars, coVars, wsVars>>

\* run_gap_filling_mode on the key, the max_runs-th run at most:
\* check_symbol_integrity, and with GAPS_FOUND the gaps go to
\* fill_all_gaps_for_symbol
GapFillingRun(max_runs) ==
    /\ ck_pc = "idle"
    /\ ck_runs < max_runs
    /\ ck_runs' = ck_runs + 1
    /\ ck_prev' = [list |-> history, gaps |-> report.gaps, filled |-> ck_filled]
    /\ report' = check_symbol_integrity(history)
    /\ IF report'.status = "GAPS_FOUND"
       THEN /\ ck_gaps' = report'.gaps
            /\ ck_filled' = 0
            /\ ck_pc' = "fill"
       ELSE UNCHANGED <<ck_gaps, ck_filled, ck_pc>>
    /\ gap_stats' = AddGapStats(gap_stats, tf, report')
    /\ UNCHANGED <<ck_missing, ck_existing, ck_all, ck_start, ck_ret,
                   keyVars, plVars, btVars, data_gaps, fnVars, envVars, clVars, emVars, storeVars, coVars, wsVars>>

\* run_gap_filling_mode beside the other programs
RunGapFillingMode == GapFillingRun(MaxChecks)

\* run_gap_filling_mode run again after it has finished
RepeatGapFillingMode == GapFillingRun(MaxRefills)

\* fetch_missing_data: the klines of [start_time, end_time], or [] when the
\* request raises
fetch_missing_data(start_time, end_time, raises) ==
    IF raises THEN << >> ELSE get_historical_klines(start_time, end_time)

\* fill_gap up to "if not missing_candles: return False"
FillGapFetch ==
    /\ ck_pc = "fill"
    /\ ck_start' = history
    /\ \E raises \in BOOLEAN :
          LET gap_info == Head(ck_gaps)
              missing_candles ==
                  fetch_missing_data(gap_info.start_time, gap_info.end_time, raises)
          IN  IF missing_candles = << >>
              THEN /\ FillGapReturns("False")
                   /\ UNCHANGED ck_missing
              ELSE /\ ck_missing' = missing_candles
                   /\ ck_pc' = "lrange"
                   /\ UNCHANGED <<ck_ret, ck_filled, ck_gaps>>
    /\ UNCHANGED <<report, ck_existing, ck_all, ck_runs, ck_prev,
                   keyVars, plVars, btVars, stVars, fnVars, envVars, clVars, emVars, storeVars, coVars, wsVars>>

\* fill_gap: all_candles is the existing items followed by the fetched
\* candles, sorted by timestamp
MergeCandles(existing, fetched) == SortByTimestamp(existing \o fetched)

\* fill_gap: LRANGE history_key 0 -1, then the merge and the sort
FillGapLrange ==
    /\ ck_pc = "lrange"
    /\ ck_existing' = history
    /\ ck_all' = MergeCandles(history, ck_missing)
    /\ ck_pc' = "delete"
    /\ UNCHANGED <<report, ck_gaps, ck_missing, ck_start, ck_prev, ck_ret, ck_filled,
                   ck_runs, keyVars, plVars, btVars, stVars, fnVars, envVars, clVars, emVars, storeVars, coVars, wsVars>>

\* fill_gap: DEL history_key
FillGapDelete ==
    /\ ck_pc = "delete"
    /\ history' = << >>
    /\ ttl' = 0
    /\ ck_pc' = "rpush"
    /\ UNCHANGED <<report, ck_gaps, ck_missing, ck_existing, ck_all, ck_start, ck_prev,
                   ck_ret, ck_filled, ck_runs, keyVars, plVars, btVars, stVars, fnVars, envVars, clVars, emVars, coVars, wsVars>>

\* fill_gap: RPUSH history_key *candle_jsons
FillGapRpush ==
    /\ ck_pc = "rpush"
    /\ history' = history \o ck_all
    /\ ck_pc' = "expire"
    /\ UNCHANGED <<ttl, report, ck_gaps, ck_missing, ck_existing, ck_all,
                   ck_start, ck_prev, ck_ret, ck_filled, ck_runs, keyVars, plVars, btVars, stVars, fnVars, envVars, clVars, emVars, coVars, wsVars>>

\* fill_gap: EXPIRE history_key, one year; return True
FillGapExpire ==
    /\ ck_pc = "expire"
    /\ ttl' = OneYear
    /\ FillGapReturns("True")
    /\ UNCHANGED <<history, report, ck_missing, ck_existing, ck_all, ck_start, ck_prev,
                   ck_runs, keyVars, plVars, btVars, stVars, fnVars, envVars, clVars, emVars, coVars, wsVars>>

\* fill_gap: the Redis command awaited next raises (connection lost, timeout);
\* "except Exception" returns False
FillGapStoreError ==
    /\ ck_pc \in {"lrange", "delete", "rpush", "expire"}
    /\ FillGapReturns("False")
    /\ UNCHANGED <<report, ck_missing, ck_existing, ck_all, ck_start, ck_prev, ck_runs,
                   keyVars, plVars, btVars, stVars, fnVars, envVars, clVars, emVars, storeVars, coVars, wsVars>>

Checker ==
    \/ RunFullIntegrityCheck
    \/ RunGapFillingMode
    \/ FillGapFetch
    \/ FillGapLrange
    \/ FillGapDelete
    \/ FillGapRpush
    \/ FillGapExpire
    \/ FillGapStoreError

----------------------------------------------------------------------------
(* The live updater: main, fill_gaps_on_startup, handle_messages,            *)
(* process_kline and update_redis                                            *)

\* start_dt of the full-history fetch, datetime(2017, 8, 17): the origin of time
EpochStart == 0

\* the symbol of the key
KeySymbol == "XRPUSDT"

\* a_time < b_time on pandas Timestamps / datetimes: two instants are ordered
\* only when both carry a time zone or neither does; otherwise "<" raises
\* TypeError (cannot compare tz-naive and tz-aware timestamps)
LessThan(a_time, a_aware, b_time, b_aware) ==
    IF a_aware # b_aware THEN "TypeError"
    ELSE IF a_time < b_time THEN "True" ELSE "False"

RECURSIVE StartupScanFrom(_, _)
StartupScanFrom(candles, i) ==
    IF i > Len(candles) THEN << >>
    ELSE LET prev_time == candles[i - 1].timestamp
             curr_time == candles[i].timestamp
             expected_time == prev_time + Interval
         IN  IF curr_time > expected_time
             THEN <<<<expected_time, curr_time>>>> \o StartupScanFrom(candles, i + 1)
             ELSE StartupScanFrom(candles, i + 1)

\* fill_gaps_on_startup: "Scan for gaps between all consecutive candles"
StartupScan(candles) == StartupScanFrom(candles, 2)

\* fill_gaps_on_startup, one turn of "while True" up to its first fetch:
\* LRANGE history_key 0 -1; with fewer than two items the full history is
\* fetched next; otherwise the items are parsed, sorted and scanned, and the
\* check for a gap at the end compares next_time with now.  next_time comes
\* from a stored isoformat string without offset (tz-naive), now is
\* datetime.now(timezone.utc) (tz-aware): the comparison raises TypeError,
\* nothing in fill_gaps_on_startup or main catches it before main re-raises,
\* and the updater ends without starting live collection.  The rest of the
\* turn (the fill of the gaps found) is never reached.
StartupLrange ==
    /\ ws_pc = "startup"
    /\ KeySymbol \in symbols
    /\ ws_data' = history
    /\ IF Len(history) < 2
       THEN /\ ws_pc' = "fetch_all"
            /\ UNCHANGED ws_gaps
       ELSE LET candles == SortByTimestamp(history)
                last_time == Last(candles).timestamp
                next_time == last_time + Interval
                trailing == LessThan(next_time, FALSE, Now, TRUE)
            IN  /\ ws_gaps' = StartupScan(candles)
                /\ ws_pc' = IF trailing = "TypeError" THEN "raised" ELSE "fill_pass"
    /\ UNCHANGED <<ws_new, ev, lv_last, errors, processed, received, appended,
                   keyVars, plVars, btVars, stVars, fnVars, envVars, clVars, emVars, storeVars, coVars, ckVars>>

\* fill_gaps_on_startup, "fetching full history": get_historical_klines from
\* 2017-08-17 to now; no candles: break.  The request is made outside any
\* try: when it raises, the exception leaves fill_gaps_on_startup and main,
\* and the keys after this one are not looked at.
StartupFetchAll ==
    /\ ws_pc = "fetch_all"
    /\ \E raises \in BOOLEAN :
          IF raises
          THEN /\ ws_pc' = "fetch_failed"
               /\ UNCHANGED ws_new
          ELSE LET new_candles == get_historical_klines(EpochStart, Now)
               IN  /\ ws_new' = SortByTimestamp(new_candles)
                   /\ ws_pc' = IF new_candles # << >> THEN "delete" ELSE "live"
    /\ UNCHANGED <<ws_data, ws_gaps, ev, lv_last, errors, processed, received,
                   appended, keyVars, plVars, btVars, stVars, fnVars, envVars, clVars, emVars, storeVars, coVars, ckVars>>

\* fill_gaps_on_startup: DEL history_key
StartupDelete ==
    /\ ws_pc = "delete"
    /\ history' = << >>
    /\ ttl' = 0
    /\ ws_pc' = "rpush"
    /\ UNCHANGED <<ws_data, ws_new, ws_gaps, ev, lv_last, errors, processed,
                   received, appended, keyVars, plVars, btVars, stVars, fnVars, envVars, clVars, emVars, coVars, ckVars>>

\* fill_gaps_on_startup: RPUSH history_key *candle_jsons
StartupRpush ==
    /\ ws_pc = "rpush"
    /\ history' = history \o ws_new
    /\ ws_pc' = "expire"
    /\ UNCHANGED <<ttl, ws_data, ws_new, ws_gaps, ev, lv_last, errors, processed,
                   received, appended, keyVars, plVars, btVars, stVars, fnVars, envVars, clVars, emVars, coVars, ckVars>>

\* fill_gaps_on_startup: EXPIRE history_key, one year; break; main goes on
\* to connect() and the message loop
StartupExpire ==
    /\ ws_pc = "expire"
    /\ ttl' = OneYear
    /\ ws_pc' = "live"
    /\ UNCHANGED <<history, ws_data, ws_new, ws_gaps, ev, lv_last, errors,
                   processed, received, appended, keyVars, plVars, btVars, stVars, fnVars, envVars, clVars, emVars, coVars, ckVars>>

\* the test recording a gap from two intervals on
MissedMoreThanOne_from_two(time_diff) == time_diff >= Interval * 2

\* check_timeframe_gaps: "if time_diff > interval_timedelta * 2"
MissedMoreThanOne(time_diff) == time_diff > Interval * 2

\* check_timeframe_gaps(symbol, interval, current_time): LRANGE -1 -1 of the
\* list; the entries it adds to stats['data_gaps'][symbol], none or one
check_timeframe_gaps(list, current_time) ==
    IF list = << >>
    THEN << >>
    ELSE LET last_time == Last(list).timestamp
             time_diff == current_time - last_time
         IN  IF MissedMoreThanOne(time_diff)
             THEN <<[interval |-> tf,
                     last_update |-> last_time,
                     current_time |-> current_time,
                     missed_candles |-> (time_diff \div Interval) - 1]>>
             ELSE << >>

\* process_kline started as a task of its own for each message
AwaitingMessage_not_awaited ==
    ws_pc \in {"live", "update_lrange", "update_rpush", "update_expire"}

\* handle_messages is at "await websocket.recv()": fill_gaps_on_startup has
\* returned and "await self.process_kline(...)" of the message before has too
AwaitingMessage == ws_pc = "live"

\* a process_kline that lets candles still forming through
OnlyCompleted_skipped(kline) == TRUE

\* process_kline, "Only process completed candles": if not kline['x']: return
OnlyCompleted(kline) == kline.x

\* handle_messages receives one kline message of the key and process_kline
\* runs up to the call of update_redis: the price check, then the closed
\* flag, then check_timeframe_gaps (which only reads) and the indicators
ProcessKline ==
    /\ AwaitingMessage
    /\ received < MaxEvents
    /\ received' = received + 1
    /\ \E k \in Slots, shape \in Shapes, x \in BOOLEAN :
          LET kline == [k |-> Candle(SlotTime(k), shape), x |-> x]
          IN  /\ ev' = kline
              /\ IF ~PriceIntegrity(kline.k)
                 THEN /\ errors' = errors + 1
                      /\ UNCHANGED <<ws_pc, data_gaps>>
                 ELSE /\ UNCHANGED errors
                      /\ ws_pc' = IF OnlyCompleted(kline) THEN "update_lrange" ELSE "live"
                      /\ data_gaps' =
                            IF OnlyCompleted(kline)
                            THEN data_gaps \o check_timeframe_gaps(history, kline.k.timestamp)
                            ELSE data_gaps
    /\ UNCHANGED <<gap_stats, ws_data, ws_new, ws_gaps, lv_last, processed, appended,
                   keyVars, plVars, btVars, fnVars, envVars, clVars, emVars, storeVars, coVars, ckVars>>

\* update_redis: LRANGE history_key -1 -1
UpdateRedisLrange ==
    /\ ws_pc = "update_lrange"
    /\ lv_last' = IF history = << >> THEN << >> ELSE <<Last(history)>>
    /\ ws_pc' = "update_rpush"
    /\ UNCHANGED <<ws_data, ws_new, ws_gaps, ev, errors, processed, received,
                   appended, keyVars, plVars, btVars, stVars, fnVars, envVars, clVars, emVars, storeVars, coVars, ckVars>>

\* the comparison letting an equal timestamp through
IsNewer_or_equal(candle_time, last_time) == candle_time >= last_time

\* update_redis: if candle_time > last_time
IsNewer(candle_time, last_time) == candle_time > last_time

\* an update that keeps the list at its length by dropping the oldest candle
UpdateRedisRpush_trimming ==
    /\ ws_pc = "update_rpush"
    /\ history' = Tail(Append(history, ev.k))
    /\ appended' = appended \cup {ev.k}
    /\ processed' = processed + 1
    /\ ws_pc' = "live"
    /\ UNCHANGED <<ttl, ws_data, ws_new, ws_gaps, ev, lv_last, errors, received,
                   keyVars, plVars, btVars, stVars, fnVars, envVars, clVars, emVars, coVars, ckVars>>

\* update_redis: RPUSH of the new record when the list was empty or the
\* candle is newer than the last one read; otherwise nothing is written and
\* process_kline finishes
UpdateRedisRpush ==
    /\ ws_pc = "update_rpush"
    /\ IF lv_last = << >>
       THEN /\ history' = Append(history, ev.k)
            /\ appended' = appended \cup {ev.k}
            /\ processed' = processed + 1
            /\ ws_pc' = "live"
       ELSE IF IsNewer(ev.k.timestamp, lv_last[1].timestamp)
            THEN /\ history' = Append(history, ev.k)
                 /\ appended' = appended \cup {ev.k}
                 /\ ws_pc' = "update_expire"
                 /\ UNCHANGED processed
            ELSE /\ processed' = processed + 1
                 /\ ws_pc' = "live"
                 /\ UNCHANGED <<history, appended>>
    /\ UNCHANGED <<ttl, ws_data, ws_new, ws_gaps, ev, lv_last, errors, received,
                   keyVars, plVars, btVars, stVars, fnVars, envVars, clVars, emVars, coVars, ckVars>>

\* update_redis: EXPIRE history_key, one year; process_kline finishes
UpdateRedisExpire ==
    /\ ws_pc = "update_expire"
    /\ ttl' = OneYear
    /\ processed' = processed + 1
    /\ ws_pc' = "live"
    /\ UNCHANGED <<history, ws_data, ws_new, ws_gaps, ev, lv_last, errors,
                   received, appended, keyVars, plVars, btVars, stVars, fnVars, envVars, clVars, emVars, coVars, ckVars>>

StartupFill ==
    \/ StartupLrange
    \/ StartupFetchAll
    \/ StartupDelete
    \/ StartupRpush
    \/ StartupExpire

LiveUpdate ==
    \/ ProcessKline
    \/ UpdateRedisLrange
    \/ UpdateRedisRpush
    \/ UpdateRedisExpire

----------------------------------------------------------------------------
(* The updater as a program: __main__, main, connect, create_connection and  *)
(* shutdown.  main() creates a manager of its own; the module-level manager  *)
(* the signal handler works on is another object, on which connect() is      *)
(* never called.                                                             *)

\* self.symbols as connect() sets it
MonitoredSymbols == {"XRPUSDT", "LTCUSDT", "SUSHIUSDT", "EPICUSDT", "LOKAUSDT"}

\* create_connection: max_retries, base_delay and the cap of the delay
max_retries == 5
base_delay == 5
DelayCap == 60

Min(a, b) == IF a < b THEN a ELSE b

\* the back-off left without its cap
Backoff_uncapped(count) ==
    LET n == IF count + 1 > max_retries THEN max_retries ELSE count + 1
    IN  [retry_count |-> n, delay |-> base_delay * (2 ^ (n - 1))]

\* create_connection, "Implement exponential backoff for reconnection":
\* retry_count += 1, held at max_retries; delay = min(base_delay *
\* 2 ** (retry_count - 1), 60)
Backoff(count) ==
    LET n == IF count + 1 > max_retries THEN max_retries ELSE count + 1
    IN  [retry_count |-> n, delay |-> Min(base_delay * (2 ^ (n - 1)), DelayCap)]

\* main() up to fill_gaps_on_startup: its manager, the first Redis client
\* (connect_to_redis, then manager.redis = redis); without Redis it raises
MainStart ==
    /\ loop_state = "running"
    /\ main_pc = "init"
    /\ \E ok \in BOOLEAN :
          IF ok
          THEN /\ redis_conns' = [redis_conns EXCEPT !["first"] = "open"]
               /\ main_pc' = "fill"
          ELSE /\ main_pc' = "done"
               /\ UNCHANGED redis_conns
    /\ UNCHANGED <<symbols, running, signalled, shutdown_starts, conn_pc, tasks, sd_pc, retry_count,
                   delay, failures, websocket, loop_state,
                   keyVars, storeVars, coVars, ckVars, wsVars, btVars, stVars, fnVars, envVars, clVars, emVars>>

\* fill_gaps_on_startup in main(): "for symbol in self.symbols" over the set
\* __init__ left empty; connect() has not run yet, no key is looked at
StartupSkip ==
    /\ loop_state = "running"
    /\ main_pc = "fill"
    /\ ws_pc = "startup"
    /\ KeySymbol \notin symbols
    /\ ws_pc' = "live"
    /\ UNCHANGED <<ws_data, ws_new, ws_gaps, ev, lv_last, errors, processed,
                   received, appended, keyVars, storeVars, coVars, ckVars,
                   plVars, btVars, stVars, fnVars, envVars, clVars, emVars>>

\* main(): the three tasks are created and gathered.  The connection task
\* runs first, up to its await of the Redis ping; monitor_connection and
\* run_periodic_tasks then test "while self.running" and, the flag being
\* set only later in connect(), return at once
MainCreateTasks ==
    /\ loop_state = "running"
    /\ main_pc = "fill"
    /\ ws_pc = "live"
    /\ main_pc' = "gather"
    /\ conn_pc' = "connect"
    /\ tasks' = [t \in DOMAIN tasks |-> IF running["main"] THEN "running" ELSE "done"]
    /\ UNCHANGED <<symbols, running, signalled, shutdown_starts, sd_pc, retry_count, delay, failures,
                   websocket, redis_conns, loop_state,
                   keyVars, storeVars, coVars, ckVars, wsVars, btVars, stVars, fnVars, envVars, clVars, emVars>>

\* connect(): a second Redis client replaces manager.redis, the symbols are
\* set, running becomes True and create_connection("conn_1") is started;
\* without Redis connect() returns
Connect ==
    /\ loop_state = "running"
    /\ conn_pc = "connect"
    /\ \E ok \in BOOLEAN :
          IF ok
          THEN /\ redis_conns' = [redis_conns EXCEPT !["second"] = "open"]
               /\ symbols' = MonitoredSymbols
               /\ running' = [running EXCEPT !["main"] = TRUE]
               /\ conn_pc' = "loop"
          ELSE /\ conn_pc' = "exited"
               /\ UNCHANGED <<redis_conns, symbols, running>>
    /\ UNCHANGED <<signalled, shutdown_starts, main_pc, tasks, sd_pc, retry_count, delay, failures,
                   websocket, loop_state,
                   keyVars, storeVars, coVars, ckVars, wsVars, btVars, stVars, fnVars, envVars, clVars, emVars>>

\* the connection task is still to run
ConnAlive == conn_pc \in {"connect", "loop", "handling", "sleep"}

\* a create_connection that keeps its count when a connection is made
ConnectedRetryCount_kept(count) == count

\* create_connection: "retry_count = 0  # Reset retry count on successful
\* connection", right after websockets.connect has returned
ConnectedRetryCount(count) == 0

\* the test of "while self.running" giving up after max_retries failures
ConnAttempt_gives_up ==
    /\ loop_state = "running"
    /\ conn_pc = "loop"
    /\ IF ~running["main"] \/ retry_count >= max_retries
       THEN /\ conn_pc' = "exited"
            /\ UNCHANGED <<websocket, retry_count, delay, failures>>
       ELSE \E ok \in BOOLEAN :
              IF ok
              THEN /\ websocket' = "open"
                   /\ retry_count' = ConnectedRetryCount(retry_count)
                   /\ failures' = 0
                   /\ conn_pc' = "handling"
                   /\ UNCHANGED delay
              ELSE /\ failures < MaxFailures
                   /\ retry_count' = Backoff(retry_count).retry_count
                   /\ delay' = Backoff(retry_count).delay
                   /\ failures' = failures + 1
                   /\ conn_pc' = "sleep"
                   /\ UNCHANGED websocket
    /\ UNCHANGED <<symbols, running, signalled, shutdown_starts, main_pc, tasks, sd_pc, redis_conns,
                   loop_state, keyVars, storeVars, coVars, ckVars, wsVars, btVars, stVars, fnVars, envVars, clVars, emVars>>

\* create_connection: "while self.running", then websockets.connect.  Once
\* connected retry_count is reset and handle_messages entered; an attempt
\* that raises is backed off from and slept after
ConnAttempt ==
    /\ loop_state = "running"
    /\ conn_pc = "loop"
    /\ IF ~running["main"]
       THEN /\ conn_pc' = "exited"
            /\ UNCHANGED <<websocket, retry_count, delay, failures>>
       ELSE \E ok \in BOOLEAN :
              IF ok
              THEN /\ websocket' = "open"
                   /\ retry_count' = ConnectedRetryCount(retry_count)
                   /\ failures' = 0
                   /\ conn_pc' = "handling"
                   /\ UNCHANGED delay
              ELSE /\ failures < MaxFailures
                   /\ retry_count' = Backoff(retry_count).retry_count
                   /\ delay' = Backoff(retry_count).delay
                   /\ failures' = failures + 1
                   /\ conn_pc' = "sleep"
                   /\ UNCHANGED websocket
    /\ UNCHANGED <<symbols, running, signalled, shutdown_starts, main_pc, tasks, sd_pc, redis_conns,
                   loop_state, keyVars, storeVars, coVars, ckVars, wsVars, btVars, stVars, fnVars, envVars, clVars, emVars>>

\* handle_messages: websocket.recv() raises ConnectionClosed, the loop is
\* left, "async with" closes the socket and create_connection backs off
ConnClosed ==
    /\ loop_state = "running"
    /\ conn_pc = "handling"
    /\ AwaitingMessage
    /\ failures < MaxFailures
    /\ websocket' = "closed"
    /\ retry_count' = Backoff(retry_count).retry_count
    /\ delay' = Backoff(retry_count).delay
    /\ failures' = failures + 1
    /\ conn_pc' = "sleep"
    /\ UNCHANGED <<symbols, running, signalled, shutdown_starts, main_pc, tasks, sd_pc, redis_conns,
                   loop_state, keyVars, storeVars, coVars, ckVars, wsVars, btVars, stVars, fnVars, envVars, clVars, emVars>>

\* create_connection: asyncio.sleep(delay) is over, back to the loop test
ConnWake ==
    /\ loop_state = "running"
    /\ conn_pc = "sleep"
    /\ conn_pc' = "loop"
    /\ UNCHANGED <<symbols, running, signalled, shutdown_starts, main_pc, tasks, sd_pc, retry_count,
                   delay, failures, websocket, redis_conns, loop_state,
                   keyVars, storeVars, coVars, ckVars, wsVars, btVars, stVars, fnVars, envVars, clVars, emVars>>

\* handle_messages: "while self.running", one message received and
\* process_kline awaited up to its call of update_redis
HandleMessage ==
    /\ loop_state = "running"
    /\ conn_pc = "handling"
    /\ running["main"]
    /\ ProcessKline

\* handle_messages: the awaited update_redis of the message in hand
HandleUpdate ==
    /\ loop_state = "running"
    /\ conn_pc = "handling"
    /\ (UpdateRedisLrange \/ UpdateRedisRpush \/ UpdateRedisExpire)

\* main() is at one of its awaits.  Between the return of connect_to_redis
\* and the gather it never yields to the loop (fill_gaps_on_startup over no
\* symbols awaits nothing), so no handler or other task runs in between
MainSuspended == main_pc # "fill"

\* handle_shutdown: the first signal sets shutdown_event and creates the
\* graceful_shutdown task; later signals find the event set
Signal ==
    /\ loop_state = "running"
    /\ MainSuspended
    /\ ~signalled
    /\ signalled' = TRUE
    /\ shutdown_starts' = shutdown_starts + 1
    /\ sd_pc' = "begin"
    /\ UNCHANGED <<symbols, running, main_pc, conn_pc, tasks, retry_count, delay,
                   failures, websocket, redis_conns, loop_state,
                   keyVars, storeVars, coVars, ckVars, wsVars, btVars, stVars, fnVars, envVars, clVars, emVars>>

\* graceful_shutdown and shutdown(manager, loop) up to the wait for the
\* running tasks: running is cleared on the module-level manager, whose
\* websockets are empty and whose redis is None, so nothing is closed
ShutdownBegin ==
    /\ loop_state = "running"
    /\ MainSuspended
    /\ sd_pc = "begin"
    /\ running' = [running EXCEPT !["module"] = FALSE]
    /\ sd_pc' = "drain"
    /\ UNCHANGED <<symbols, signalled, shutdown_starts, main_pc, conn_pc, tasks, retry_count, delay,
                   failures, websocket, redis_conns, loop_state,
                   keyVars, storeVars, coVars, ckVars, wsVars, btVars, stVars, fnVars, envVars, clVars, emVars>>

\* task.cancel() on everything but the shutdown task.  main() at its gather
\* catches CancelledError and goes on to its finally block; anywhere else
\* it ends.  The connection task unwinds, "async with" closing its socket;
\* a process_kline in hand is abandoned where it is
CancelTasks ==
    /\ main_pc' = CASE main_pc = "gather" -> "closing_ws"
                    [] main_pc \in {"init", "fill", "closing_ws", "closing_redis"}
                         -> "cancelled"
                    [] OTHER -> main_pc
    /\ conn_pc' = IF ConnAlive THEN "cancelled" ELSE conn_pc
    /\ websocket' = IF websocket = "open" /\ conn_pc = "handling"
                    THEN "closed" ELSE websocket
    /\ tasks' = [t \in DOMAIN tasks |->
                   IF tasks[t] = "running" THEN "cancelled" ELSE tasks[t]]

\* shutdown: asyncio.wait(running_tasks, timeout=5.0) times out with tasks
\* pending, which are then cancelled; with no task left it returns at once
ShutdownDrain ==
    /\ loop_state = "running"
    /\ MainSuspended
    /\ sd_pc = "drain"
    /\ CancelTasks
    /\ sd_pc' = "wait_cancelled"
    /\ UNCHANGED <<symbols, running, signalled, shutdown_starts, retry_count, delay, failures,
                   redis_conns, loop_state,
                   keyVars, storeVars, coVars, ckVars, wsVars, btVars, stVars, fnVars, envVars, clVars, emVars>>

\* shutdown: asyncio.wait(pending, timeout=1.0), the statistics, and the
\* finally block cancelling every task once more, main() in its cleanup too
ShutdownFinish ==
    /\ loop_state = "running"
    /\ MainSuspended
    /\ sd_pc = "wait_cancelled"
    /\ CancelTasks
    /\ sd_pc' = "done"
    /\ UNCHANGED <<symbols, running, signalled, shutdown_starts, retry_count, delay, failures,
                   redis_conns, loop_state,
                   keyVars, storeVars, coVars, ckVars, wsVars, btVars, stVars, fnVars, envVars, clVars, emVars>>

\* main(): gather returns by itself once connect() has returned
MainGatherDone ==
    /\ loop_state = "running"
    /\ main_pc = "gather"
    /\ conn_pc = "exited"
    /\ \A t \in DOMAIN tasks : tasks[t] = "done"
    /\ main_pc' = "closing_ws"
    /\ UNCHANGED <<symbols, running, signalled, shutdown_starts, conn_pc, tasks, sd_pc, retry_count,
                   delay, failures, websocket, redis_conns, loop_state,
                   keyVars, storeVars, coVars, ckVars, wsVars, btVars, stVars, fnVars, envVars, clVars, emVars>>

\* main(), finally: ws.close() for each of manager.websockets, sleep(0.5)
MainCloseWebSockets ==
    /\ loop_state = "running"
    /\ main_pc = "closing_ws"
    /\ websocket' = IF websocket = "open" THEN "closed" ELSE websocket
    /\ main_pc' = "closing_redis"
    /\ UNCHANGED <<symbols, running, signalled, shutdown_starts, conn_pc, tasks, sd_pc, retry_count,
                   delay, failures, redis_conns, loop_state,
                   keyVars, storeVars, coVars, ckVars, wsVars, btVars, stVars, fnVars, envVars, clVars, emVars>>

\* main(), finally: redis.aclose() on the client main() itself opened
MainCloseRedis ==
    /\ loop_state = "running"
    /\ main_pc = "closing_redis"
    /\ redis_conns' = [redis_conns EXCEPT !["first"] = "closed"]
    /\ main_pc' = "done"
    /\ UNCHANGED <<symbols, running, signalled, shutdown_starts, conn_pc, tasks, sd_pc, retry_count,
                   delay, failures, websocket, loop_state,
                   keyVars, storeVars, coVars, ckVars, wsVars, btVars, stVars, fnVars, envVars, clVars, emVars>>

\* __main__: run_until_complete(main()) is over.  Without a signal so far
\* graceful_shutdown is run now, shutdown_event staying clear; every task
\* left is cancelled and the loop closed.  The handlers are still installed:
\* a signal handled by the loop while the cleanup runs ("late") finds the
\* event clear, sets it and creates one more graceful_shutdown task
LoopEnd ==
    /\ loop_state = "running"
    /\ main_pc \in {"done", "cancelled"}
    /\ CancelTasks
    /\ running' = [running EXCEPT !["module"] = FALSE]
    /\ sd_pc' = CASE ~signalled -> "done"
                  [] sd_pc \in {"begin", "drain", "wait_cancelled"} -> "cancelled"
                  [] OTHER -> sd_pc
    /\ IF signalled
       THEN UNCHANGED <<signalled, shutdown_starts>>
       ELSE \E late \in BOOLEAN :
              /\ signalled' = late
              /\ shutdown_starts' = shutdown_starts + (IF late THEN 2 ELSE 1)
    /\ loop_state' = "closed"
    /\ UNCHANGED <<symbols, retry_count, delay, failures, redis_conns,
                   keyVars, storeVars, coVars, ckVars, wsVars, btVars, stVars, fnVars, envVars, clVars, emVars>>

----------------------------------------------------------------------------
(* The derived fields: calculate_emas of the three programs, applied to the  *)
(* DataFrame each write path builds.  An EMA value is kept as the rows it    *)
(* was computed from.                                                        *)

\* "periods" of calculate_emas in the collector, the checker and the updater
periods == {7, 15, 25, 55, 99, 200, 300}

Rows == 0 .. MaxRows - 1

\* the timestamps in S, oldest first
RECURSIVE FrameOf(_, _)
FrameOf(S, k) ==
    IF k > MaxRows THEN << >>
    ELSE IF k \in S THEN <<k>> \o FrameOf(S, k + 1)
         ELSE FrameOf(S, k + 1)

\* EMAIndicator(close=df['close'], window=period).ema_indicator() at row i
\* of the frame: NaN on the first period - 1 rows, from then on the average
\* over the rows 1..i of the frame
EMAIndicator(frame, i, period) ==
    IF i < period
    THEN [kind |-> "NaN", basis |-> << >>]
    ELSE [kind |-> "value", basis |-> SubSeq(frame, 1, i)]

\* calculate_emas of the collector and of the updater: every period is
\* computed whatever the length of the frame
calculate_emas(frame) ==
    [i \in 1 .. Len(frame) |->
        [timestamp |-> frame[i],
         ema |-> [period \in periods |-> EMAIndicator(frame, i, period)]]]

\* calculate_emas of the checker: a period longer than the frame gets a
\* column of None
checker_calculate_emas(frame) ==
    [i \in 1 .. Len(frame) |->
        [timestamp |-> frame[i],
         ema |-> [period \in periods |->
                    IF Len(frame) >= period
                    THEN EMAIndicator(frame, i, period)
                    ELSE [kind |-> "None", basis |-> << >>]]]]

\* process_symbol_interval of the collector: the frame fetched, its derived
\* fields, and store_data writing every row of it
DeriveCollector ==
    /\ dv_pc = "idle"
    /\ \E S \in SUBSET Rows :
          /\ S # {}
          /\ dv_frame' = FrameOf(S, 0)
          /\ dv_rows' = calculate_emas(FrameOf(S, 0))
          /\ dv_stored' = calculate_emas(FrameOf(S, 0))
    /\ dv_path' = "collector"
    /\ dv_pc' = "stored"
    /\ UNCHANGED <<dv_all, keyVars, storeVars, coVars, ckVars, wsVars, plVars,
                   btVars, stVars, envVars, clVars, emVars>>

\* process_kline and update_redis: the frame is the one row of the message,
\* appended when newer than the last record
DeriveLive ==
    /\ dv_pc = "stored"
    /\ \E t \in Rows :
          /\ t > Last(dv_stored).timestamp
          /\ dv_frame' = <<t>>
          /\ dv_rows' = calculate_emas(<<t>>)
          /\ dv_stored' = dv_stored \o calculate_emas(<<t>>)
    /\ dv_path' = "live"
    /\ UNCHANGED <<dv_pc, dv_all, keyVars, storeVars, coVars, ckVars, wsVars,
                   plVars, btVars, stVars, envVars, clVars, emVars>>

\* fill_gap on a gap of the list: the frame is the candles fetched from the
\* expected time after the gap's first candle to the candle that ends it;
\* all_candles is the records as stored followed by the rows of the frame,
\* sorted, and replaces the list
DeriveFillGap ==
    /\ dv_pc = "stored"
    /\ \E i \in 1 .. Len(dv_stored) - 1 :
          LET start_time == dv_stored[i].timestamp + 1
              end_time == dv_stored[i + 1].timestamp
              df == checker_calculate_emas(FrameOf(start_time .. end_time, 0))
          IN  /\ start_time < end_time
              /\ dv_frame' = FrameOf(start_time .. end_time, 0)
              /\ dv_rows' = df
              /\ dv_all' = SortByTimestamp(dv_stored \o df)
              /\ dv_stored' = SortByTimestamp(dv_stored \o df)
    /\ dv_path' = "checker"
    /\ dv_pc' = "filled"
    /\ UNCHANGED <<keyVars, storeVars, coVars, ckVars, wsVars, plVars, btVars,
                   stVars, envVars, clVars, emVars>>

----------------------------------------------------------------------------
(* The EMA manager: EMARedisManager of ema_to_redis.py, on its own Redis db  *)

MaxSaves == 2
MaxClock == 2
TickSeconds == 3600
expiry_seconds == 7200

\* trading pairs as configured: base, "/", quote
EmaPairs == {<<"BTC", "/", "USDT">>, <<"ETH", "/", "USDT">>}
EmaTimeframes == {"1h", "4h"}
ema_periods == {7, 25, 50, 63, 99, 200}

\* lengths of the frame fetch_ohlcv_data returns, and its last close
FrameLengths == {0, 7, 50}
Closes == {1, 2}

\* a {} of Python, and a None
EmptyData == << >>
NoneValue == << >>

\* str.replace(old, new)
replace(str, old, new) ==
    [i \in 1 .. Len(str) |-> IF str[i] = old THEN new ELSE str[i]]

\* a key that leaves the timeframe out
base_key_without_timeframe(symbol, timeframe) ==
    <<"ema_data", ":">> \o replace(symbol, "/", "_")

\* f"ema_data:{symbol.replace('/', '_')}:{timeframe}"
base_key(symbol, timeframe) ==
    <<"ema_data", ":">> \o replace(symbol, "/", "_") \o <<":", timeframe>>

\* calculate_emas_for_pair_timeframe on a frame of n rows whose last close
\* is close: {} without rows, an EMA for each period the frame is long enough
\* for, signals when ema_7, ema_25 and ema_50 are there
calculate_emas_for_pair_timeframe(symbol, timeframe, n, close) ==
    IF n = 0 THEN EmptyData
    ELSE LET emas == [period \in {q \in ema_periods : n >= q} |->
                         [value |-> <<"ewm", period, close>>]]
         IN  [symbol |-> symbol,
              timeframe |-> timeframe,
              last_price |-> close,
              emas |-> emas,
              signals |-> IF {7, 25, 50} \subseteq DOMAIN emas
                          THEN <<"bullish_alignment">> ELSE << >>]

\* json.dumps of the data: an object is written as its members in order, the
\* emas by increasing period as they were inserted
RECURSIVE Members(_, _)
Members(emas, left) ==
    IF left = {} THEN << >>
    ELSE LET period == CHOOSE q \in left : \A r \in left : q <= r
         IN  <<<<period, emas[period].value>>>> \o Members(emas, left \ {period})

json_dumps(data) ==
    <<<<"symbol", data.symbol>>,
      <<"timeframe", data.timeframe>>,
      <<"last_price", data.last_price>>,
      <<"emas", Members(data.emas, DOMAIN data.emas)>>,
      <<"signals", data.signals>>>>

\* json.loads of such a text: members back into dicts
json_loads(text) ==
    LET member(name) == (CHOOSE m \in Range(text) : m[1] = name)[2]
        emas == member("emas")
    IN  [symbol |-> member("symbol"),
         timeframe |-> member("timeframe"),
         last_price |-> member("last_price"),
         emas |-> [period \in {m[1] : m \in Range(emas)} |->
                      [value |-> (CHOOSE m \in Range(emas) : m[1] = period)[2]]],
         signals |-> member("signals")]

\* redis_client.setex(key, seconds, value) for each key of entries
setex(store, entries, seconds) ==
    [key \in DOMAIN store \cup DOMAIN entries |->
        IF key \in DOMAIN entries
        THEN [text |-> entries[key], expires |-> em_now + seconds]
        ELSE store[key]]

\* redis_client.get(key): the text, or None once the key has expired
get(key) ==
    IF key \in DOMAIN em_store /\ em_now < em_store[key].expires
    THEN <<em_store[key].text>>
    ELSE NoneValue

\* the keys save_to_redis writes after the main one
QuickAccessEntries(key, data) ==
    LET names == {<<"ema_", period>> : period \in DOMAIN data.emas}
                 \cup (IF data.signals # << >> THEN {<<"signals">>} ELSE {})
                 \cup {<<"price">>, <<"last_update">>}
        text(name) == IF name[1] = "ema_" THEN data.emas[name[2]].value
                      ELSE IF name[1] = "signals" THEN data.signals
                      ELSE IF name[1] = "price" THEN data.last_price
                      ELSE em_now
    IN  [k \in {key \o <<":">> \o name : name \in names} |->
            text(CHOOSE name \in names : k = key \o <<":">> \o name)]

\* EMARedisManager.save_to_redis(symbol, timeframe, data).  Redis may fail at
\* the first setex ("first": nothing is written), at a later one ("later":
\* the main key is written) or not at all; the exception is caught.
save_to_redis(symbol, timeframe, data, fails) ==
    IF DOMAIN data = {} \/ fails = "first"
    THEN UNCHANGED <<em_store, em_saved>>
    ELSE LET key == base_key(symbol, timeframe)
             main == setex(em_store, [k \in {key} |-> json_dumps(data)], expiry_seconds)
         IN  /\ em_store' = IF fails = "later" THEN main
                            ELSE setex(main, QuickAccessEntries(key, data), expiry_seconds)
             /\ em_saved' = [em_saved EXCEPT ![<<symbol, timeframe>>] =
                                 <<[data |-> data, at |-> em_now]>>]

\* EMARedisManager.get_from_redis(symbol, timeframe)
get_from_redis(symbol, timeframe) ==
    LET data == get(base_key(symbol, timeframe))
    IN  IF data # NoneValue THEN json_loads(data[1]) ELSE NoneValue

\* update_all_pairs at one (symbol, timeframe): the data is calculated and
\* saved unless it is empty
UpdateAllPairs ==
    /\ em_calls < MaxSaves
    /\ em_calls' = em_calls + 1
    /\ \E symbol \in EmaPairs, timeframe \in EmaTimeframes, n \in FrameLengths,
          close \in Closes, fails \in {"none", "first", "later"} :
          LET ema_data == calculate_emas_for_pair_timeframe(symbol, timeframe, n, close)
          IN  IF DOMAIN ema_data # {}
              THEN save_to_redis(symbol, timeframe, ema_data, fails)
              ELSE UNCHANGED <<em_store, em_saved>>
    /\ UNCHANGED <<em_now, keyVars, storeVars, coVars, ckVars, wsVars, plVars,
                   btVars, stVars, fnVars, envVars, clVars>>

\* save_to_redis called by hand, as debug_ema.py does, with whatever
\* calculate_emas_for_pair_timeframe returned
SaveToRedis ==
    /\ em_calls < MaxSaves
    /\ em_calls' = em_calls + 1
    /\ \E symbol \in EmaPairs, timeframe \in EmaTimeframes, n \in FrameLengths,
          close \in Closes, fails \in {"none", "first", "later"} :
          save_to_redis(symbol, timeframe,
                        calculate_emas_for_pair_timeframe(symbol, timeframe, n, close),
                        fails)
    /\ UNCHANGED <<em_now, keyVars, storeVars, coVars, ckVars, wsVars, plVars,
                   btVars, stVars, fnVars, envVars, clVars>>

\* time passes
EmaTick ==
    /\ em_now < MaxClock * TickSeconds
    /\ em_now' = em_now + TickSeconds
    /\ UNCHANGED <<em_store, em_saved, em_calls, keyVars, storeVars, coVars,
                   ckVars, wsVars, plVars, btVars, stVars, fnVars, envVars, clVars>>

\* The manager has just connected: an empty db
InitEma ==
    /\ em_store = << >>
    /\ em_now = 0
    /\ em_saved = [st \in EmaPairs \X EmaTimeframes |-> << >>]
    /\ em_calls = 0

----------------------------------------------------------------------------
(* The Redis cleaner (redis_cleaner.py).  A key is the sequence of its       *)
(* parts between colons, a text entered at a prompt the sequence of its      *)
(* characters.                                                               *)

\* the keys database 0 may hold when the cleaner is started
KeyNames ==
    {<<"crypto", "BTCUSDT", "1m", "history">>,
     <<"crypto", "BTCUSDT", "1m", "latest">>,
     <<"crypto">>,
     <<"CRYPTO", "BTCUSDT">>,
     <<"ema", "BTC/USDT_1m">>}

\* what may be typed at "Enter choice (1/2/3): "
ChoiceTexts ==
    {<<"1">>, <<"2">>, <<"3">>, <<"4">>, << >>, <<" ", "2">>, <<"1", "2">>}

\* what may be typed at a confirmation prompt
ConfirmTexts ==
    {<<"Y", "E", "S">>, <<"y", "e", "s">>, <<"Y", "e", "s">>,
     <<"Y", "E", "S", " ">>, <<"y">>, <<"n", "o">>, << >>}

\* str.strip(): leading and trailing blanks removed
RECURSIVE strip(_)
strip(text) ==
    IF text = << >> THEN text
    ELSE IF Head(text) = " " THEN strip(Tail(text))
    ELSE IF text[Len(text)] = " " THEN strip(SubSeq(text, 1, Len(text) - 1))
    ELSE text

\* str.lower() over the letters the texts are made of
lower(text) ==
    [i \in 1 .. Len(text) |->
        CASE text[i] = "Y" -> "y"
          [] text[i] = "E" -> "e"
          [] text[i] = "S" -> "s"
          [] OTHER -> text[i]]

\* a crypto-only deletion that takes every key for a crypto key
crypto_keys_everything(db) == db

\* redis_client.keys('crypto:*'): the keys that begin with "crypto:"
crypto_keys(db) == {key \in db : Len(key) >= 2 /\ key[1] = "crypto"}

\* delete_all_data: FLUSHDB
delete_all_data(db) == {}

\* delete_crypto_data_only: DEL of the keys found, in batches of 1000 (one
\* batch for any db over KeyNames)
delete_crypto_data_only(db) == db \ crypto_keys(db)

\* main(): connect_to_redis and the first scan_redis_keys; without a
\* connection, or with an empty database, main() returns
CleanerScan ==
    /\ cl_pc = "start"
    /\ IF redis_up
       THEN /\ cl_keys' = cl_db
            /\ cl_pc' = IF cl_db = {} THEN "done" ELSE "choice"
       ELSE /\ cl_pc' = "done"
            /\ UNCHANGED cl_keys
    /\ UNCHANGED <<cl_db, cl_choice, cl_confirm, keyVars, storeVars, coVars, ckVars,
                   wsVars, plVars, btVars, stVars, fnVars, envVars, emVars>>

\* main(): choice = input(...).strip(); '3' and anything else than '1' and
\* '2' go straight to the final scan
CleanerChoice ==
    /\ cl_pc = "choice"
    /\ \E text \in ChoiceTexts :
          /\ cl_choice' = strip(text)
          /\ cl_pc' = IF strip(text) \in {<<"1">>, <<"2">>} THEN "confirm" ELSE "final"
    /\ UNCHANGED <<cl_db, cl_keys, cl_confirm, keyVars, storeVars, coVars, ckVars,
                   wsVars, plVars, btVars, stVars, fnVars, envVars, emVars>>

\* main(): confirm = input(...).strip(), compared with 'YES' for choice 1
\* and, lowered, with 'yes' for choice 2; then the deletion, which returns
\* False with nothing deleted when its command raises
CleanerConfirm ==
    /\ cl_pc = "confirm"
    /\ \E text \in ConfirmTexts, raises \in BOOLEAN :
          /\ cl_confirm' = strip(text)
          /\ cl_db' = CASE raises -> cl_db
                        [] cl_choice = <<"1">> /\ strip(text) = <<"Y", "E", "S">>
                             -> delete_all_data(cl_db)
                        [] cl_choice = <<"2">> /\ lower(strip(text)) = <<"y", "e", "s">>
                             -> delete_crypto_data_only(cl_db)
                        [] OTHER -> cl_db
    /\ cl_pc' = "final"
    /\ UNCHANGED <<cl_keys, cl_choice, keyVars, storeVars, coVars, ckVars,
                   wsVars, plVars, btVars, stVars, fnVars, envVars, emVars>>

\* main(): the final scan_redis_keys and redis_client.aclose()
CleanerFinalScan ==
    /\ cl_pc = "final"
    /\ cl_pc' = "done"
    /\ UNCHANGED <<cl_db, cl_keys, cl_choice, cl_confirm, keyVars, storeVars, coVars,
                   ckVars, wsVars, plVars, btVars, stVars, fnVars, envVars, emVars>>

\* The cleaner has not been started
InitCleaner ==
    /\ cl_pc = "start"
    /\ cl_db = {} /\ cl_keys = {}
    /\ cl_choice = << >> /\ cl_confirm = << >>

----------------------------------------------------------------------------
(* Batches over the keys: parallel_process_symbols of the collector and      *)
(* run_full_integrity_check of the checker                                   *)

\* get_all_symbols() of the collector and of the checker
SourceSymbols == <<"XRPUSDT", "LTCUSDT", "SUSHIUSDT", "EPICUSDT", "LOKAUSDT">>

\* the symbols a batch is run on
BatchSymbols == SubSeq(SourceSymbols, 1, MaxSymbols)

\* intervals of parallel_process_symbols, timeframes of run_full_integrity_check
TimeframeList == <<"1m", "1h", "1d">>

\* total_tasks = len(symbols) * len(intervals)
total_tasks == Len(BatchSymbols) * Len(TimeframeList)

\* what can happen to one task of the collector: it stores the key, the fetch
\* raises, the frame is empty (df.iloc[-1] raises), or the pipeline raises
TaskOutcomes == {"ok", "fetch_error", "empty", "store_error"}

\* process_symbol_interval: (True, ...) when nothing raised, (False, ...) from
\* its "except Exception"
process_symbol_interval(outcome) == outcome = "ok"

\* parallel_process_symbols: every (symbol, interval) is submitted at once
BatchSubmit ==
    /\ bt_pc = "idle"
    /\ bt_futures' = {<<BatchSymbols[i], TimeframeList[j]>> :
                          i \in 1 .. Len(BatchSymbols), j \in 1 .. Len(TimeframeList)}
    /\ completed_tasks' = 0
    /\ success_count' = 0
    /\ bt_pc' = "collecting"
    /\ UNCHANGED <<all_results, keyVars, storeVars, coVars, ckVars, wsVars, plVars, stVars, fnVars, envVars, clVars, emVars>>

\* parallel_process_symbols: one turn of "for future in as_completed(...)";
\* after the last future the function returns (success_count, total_tasks)
BatchComplete ==
    /\ bt_pc = "collecting"
    /\ \E task \in bt_futures, outcome \in TaskOutcomes :
          /\ bt_futures' = bt_futures \ {task}
          /\ completed_tasks' = completed_tasks + 1
          /\ success_count' = IF process_symbol_interval(outcome)
                              THEN success_count + 1 ELSE success_count
          /\ bt_pc' = IF bt_futures' = {} THEN "collected" ELSE "collecting"
    /\ UNCHANGED <<all_results, keyVars, storeVars, coVars, ckVars, wsVars, plVars, stVars, fnVars, envVars, clVars, emVars>>

\* what LRANGE returns for a key of the batch: nothing, two adjacent candles,
\* or two candles with one missing between them
SampleData(timeframe) ==
    LET at(k) == Candle(k * get_expected_interval(timeframe), "ok")
    IN  {<< >>, <<at(0), at(1)>>, <<at(0), at(2)>>}

\* run_full_integrity_check up to its loops
BatchCheckStart ==
    /\ bt_pc = "idle"
    /\ all_results' = << >>
    /\ bt_pc' = "checking"
    /\ UNCHANGED <<bt_futures, completed_tasks, success_count,
                   keyVars, storeVars, coVars, ckVars, wsVars, plVars, stVars, fnVars, envVars, clVars, emVars>>

\* the error of a key that ends the whole batch
BatchCheckKey_abort_on_error ==
    /\ bt_pc = "checking"
    /\ LET completed == Len(all_results) + 1
           symbol == BatchSymbols[((completed - 1) \div Len(TimeframeList)) + 1]
           timeframe == TimeframeList[((completed - 1) % Len(TimeframeList)) + 1]
       IN  /\ tf' = timeframe
           /\ \E data \in SampleData(timeframe), raises \in BOOLEAN :
                 LET result == IF raises THEN ErrorReport
                               ELSE (check_symbol_integrity(data))'
                 IN  /\ gap_stats' = AddGapStats(gap_stats, timeframe, result)
                     /\ all_results' =
                          IF raises THEN all_results
                          ELSE Append(all_results,
                                      [symbol |-> symbol, timeframe |-> timeframe,
                                       status |-> result.status])
                     /\ bt_pc' = IF raises \/ completed = total_tasks
                                 THEN "checked" ELSE "checking"
    /\ UNCHANGED <<klines, bt_futures, completed_tasks, success_count,
                   storeVars, coVars, ckVars, wsVars, plVars, data_gaps, fnVars, envVars, clVars, emVars>>

\* run_full_integrity_check: one turn of "for symbol ... for timeframe ...":
\* check_symbol_integrity of the key, its result appended to all_results;
\* after the last key the summary is printed and all_results returned
BatchCheckKey ==
    /\ bt_pc = "checking"
    /\ LET completed == Len(all_results) + 1
           symbol == BatchSymbols[((completed - 1) \div Len(TimeframeList)) + 1]
           timeframe == TimeframeList[((completed - 1) % Len(TimeframeList)) + 1]
       IN  /\ tf' = timeframe
           /\ \E data \in SampleData(timeframe), raises \in BOOLEAN :
                 LET result == IF raises THEN ErrorReport
                               ELSE (check_symbol_integrity(data))'
                 IN  /\ gap_stats' = AddGapStats(gap_stats, timeframe, result)
                     /\ all_results' =
                          Append(all_results,
                                 [symbol |-> symbol, timeframe |-> timeframe,
                                  status |-> result.status])
                     /\ bt_pc' = IF completed = total_tasks
                                 THEN "checked" ELSE "checking"
    /\ UNCHANGED <<klines, bt_futures, completed_tasks, success_count,
                   storeVars, coVars, ckVars, wsVars, plVars, data_gaps, fnVars, envVars, clVars, emVars>>

----------------------------------------------------------------------------
(* Initial states and specifications *)

NoEvent == [k |-> Candle(0, "ok"), x |-> FALSE]

RECURSIVE SeriesOf(_, _)
\* the sound candles of the slots in S from slot k on, oldest first
SeriesOf(S, k) ==
    IF k > MaxSlot THEN << >>
    ELSE IF k \in S THEN <<Candle(SlotTime(k), "ok")>> \o SeriesOf(S, k + 1)
         ELSE SeriesOf(S, k + 1)

\* ck_prev before the first run of the gap filler
NoRun == [list |-> << >>, gaps |-> << >>, filled |-> 0]

\* the programs before their first step
InitPrograms ==
    /\ co_pc = "idle" /\ co_df = << >> /\ co_old = << >> /\ co_runs = 0
    /\ co_ret = "none"
    /\ ck_pc = "idle" /\ report = NoReport /\ ck_gaps = << >>
    /\ ck_missing = << >> /\ ck_existing = << >> /\ ck_all = << >>
    /\ ck_start = << >> /\ ck_ret = "none" /\ ck_filled = 0 /\ ck_runs = 0
    /\ ck_prev = NoRun
    /\ ws_data = << >> /\ ws_new = << >> /\ ws_gaps = << >>
    /\ ev = NoEvent /\ lv_last = << >>
    /\ errors = 0 /\ processed = 0 /\ received = 0 /\ appended = {}
    /\ data_gaps = << >>
    /\ gap_stats = [t \in Timeframes |-> [gaps |-> 0, missing_candles |-> 0]]

\* The two managers of the updater: the one main() creates and runs, and the
\* one the module creates for its signal handlers
Managers == {"main", "module"}

\* The updater before main() starts, self.symbols of its manager being syms
InitPipeline(syms) ==
    /\ symbols = syms
    /\ running = [m \in Managers |-> FALSE]
    /\ signalled = FALSE
    /\ shutdown_starts = 0
    /\ main_pc = "init" /\ conn_pc = "none" /\ sd_pc = "none"
    /\ tasks = [t \in {"monitor", "periodic"} |-> "none"]
    /\ retry_count = 0 /\ delay = 0 /\ failures = 0
    /\ websocket = "none"
    /\ redis_conns = [c \in {"first", "second"} |-> "none"]
    /\ loop_state = "running"

\* No batch has started
InitBatch ==
    /\ bt_pc = "idle" /\ bt_futures = {}
    /\ completed_tasks = 0 /\ success_count = 0 /\ all_results = << >>

\* Nothing has been derived
InitDerive ==
    /\ dv_pc = "idle" /\ dv_path = "none"
    /\ dv_frame = << >> /\ dv_rows = << >>
    /\ dv_stored = << >> /\ dv_all = << >>

\* The key holds what earlier runs left: nothing, or an increasing series of
\* sound candles, possibly with candles missing.
InitStore ==
    /\ klines \in [Slots -> {"ok", "bad", "none"}]
    /\ \E S \in SUBSET Slots : history = SeriesOf(S, 0)
    /\ ttl = IF history = << >> THEN 0 ELSE OneYear

Init ==
    /\ tf = "1m"
    /\ InitStore
    /\ ws_pc = "startup"
    /\ InitPrograms
    /\ InitPipeline({KeySymbol})
    /\ InitBatch
    /\ InitDerive
    /\ redis_up = TRUE
    /\ InitEma
    /\ InitCleaner

\* The gap filler of the checker beside the live updater
Next == Checker \/ StartupFill \/ LiveUpdate

Spec == Init /\ [][Next]_vars

\* The collector beside the checker
BackfillNext == Collector \/ Checker

BackfillSpec == Init /\ [][BackfillNext]_vars

\* The collector alone: process_symbol_interval for the key
CollectNext == CollectorFetch \/ CollectorDelete \/ CollectorRpush

CollectSpec == Init /\ [][CollectNext]_vars

\* The live updater alone
UpdaterNext == StartupFill \/ LiveUpdate

UpdaterSpec == Init /\ [][UpdaterNext]_vars

\* The updater as __main__ runs it: main() fills the gaps of a manager
\* whose symbols are still the empty set
PipelineInit ==
    /\ tf = "1m"
    /\ klines = [k \in Slots |-> "ok"]
    /\ history = << >>
    /\ ttl = 0
    /\ ws_pc = "startup"
    /\ InitPrograms
    /\ InitPipeline({})
    /\ InitBatch
    /\ InitDerive
    /\ redis_up = TRUE
    /\ InitEma
    /\ InitCleaner

PipelineNext ==
    \/ MainStart \/ StartupSkip \/ MainCreateTasks \/ Connect
    \/ ConnAttempt \/ ConnClosed \/ ConnWake
    \/ HandleMessage \/ HandleUpdate
    \/ Signal \/ ShutdownBegin \/ ShutdownDrain \/ ShutdownFinish
    \/ MainGatherDone \/ MainCloseWebSockets \/ MainCloseRedis \/ LoopEnd

PipelineSpec == PipelineInit /\ [][PipelineNext]_vars

\* The derivations of the write paths, every other program at rest
DeriveInit ==
    /\ tf = "1m"
    /\ klines = [k \in Slots |-> "ok"]
    /\ history = << >>
    /\ ttl = 0
    /\ ws_pc = "startup"
    /\ InitPrograms
    /\ InitPipeline({KeySymbol})
    /\ InitBatch
    /\ InitDerive
    /\ redis_up = TRUE
    /\ InitEma
    /\ InitCleaner

DeriveNext == DeriveCollector \/ DeriveLive \/ DeriveFillGap

DeriveSpec == DeriveInit /\ [][DeriveNext]_vars

\* The EMA manager alone
EmaNext == UpdateAllPairs \/ SaveToRedis \/ EmaTick

EmaSpec == DeriveInit /\ [][EmaNext]_vars

\* One run of the cleaner over any database, every other program at rest
CleanerInit ==
    /\ tf = "1m"
    /\ klines = [k \in Slots |-> "ok"]
    /\ history = << >>
    /\ ttl = 0
    /\ ws_pc = "startup"
    /\ InitPrograms
    /\ InitPipeline({})
    /\ InitBatch
    /\ InitDerive
    /\ redis_up \in BOOLEAN
    /\ InitEma
    /\ cl_pc = "start"
    /\ cl_db \in SUBSET KeyNames
    /\ cl_keys = {}
    /\ cl_choice = << >> /\ cl_confirm = << >>

CleanerNext == CleanerScan \/ CleanerChoice \/ CleanerConfirm \/ CleanerFinalScan

CleanerSpec == CleanerInit /\ [][CleanerNext]_vars

\* The lists of at most MaxLen sound candles in timestamp order, a timestamp
\* possibly more than once (fill_gap appends what it fetched and sorts)
SortedLists ==
    LET SlotLists == UNION {[1 .. n -> Slots] : n \in 0 .. MaxLen}
        Ordered == {g \in SlotLists : \A i \in 1 .. Len(g) - 1 : g[i] <= g[i + 1]}
    IN  {[i \in 1 .. Len(g) |-> Candle(SlotTime(g[i]), "ok")] : g \in Ordered}

DetectInit ==
    /\ tf \in Timeframes
    /\ klines = [k \in Slots |-> "ok"]
    /\ history \in SortedLists
    /\ ttl = IF history = << >> THEN 0 ELSE OneYear
    /\ ws_pc = "startup"
    /\ InitPrograms
    /\ InitPipeline({KeySymbol})
    /\ InitBatch
    /\ InitDerive
    /\ redis_up = TRUE
    /\ InitEma
    /\ InitCleaner

\* The two gap detectors on a stored list: the checker's and the startup fill's
DetectNext == RunFullIntegrityCheck \/ StartupLrange

DetectSpec == DetectInit /\ [][DetectNext]_vars

\* what LRANGE may return for a list: candles of the slots and the two kinds
\* of foreign item, in any order
StoredItems == {Candle(SlotTime(k), "ok") : k \in Slots} \cup {InvalidJson, NoTimestamp}

ItemLists == UNION {[1 .. n -> StoredItems] : n \in 0 .. MaxLen}

IntegrityInit ==
    /\ tf \in Timeframes
    /\ klines = [k \in Slots |-> "ok"]
    /\ history \in ItemLists
    /\ ttl = IF history = << >> THEN 0 ELSE OneYear
    /\ ws_pc = "startup"
    /\ InitPrograms
    /\ InitPipeline({KeySymbol})
    /\ InitBatch
    /\ InitDerive
    /\ redis_up \in BOOLEAN
    /\ InitEma
    /\ InitCleaner

\* check_symbol_integrity on any list, with Redis answering or not
IntegrityNext == RunFullIntegrityCheck

IntegritySpec == IntegrityInit /\ [][IntegrityNext]_vars

\* the slots a stored series may have candles at: one of them opened before
\* the day the full-history fetch starts from
PassSlots == (0 - 1) .. MaxSlot

\* The updater starts on a key whose series has any number of gaps
StartupPassInit ==
    /\ tf \in Timeframes
    /\ klines = [k \in Slots |-> "ok"]
    /\ \E S \in SUBSET PassSlots : history = SeriesOf(S, 0 - 1)
    /\ ttl = IF history = << >> THEN 0 ELSE OneYear
    /\ ws_pc = "startup"
    /\ InitPrograms
    /\ InitPipeline({KeySymbol})
    /\ InitBatch
    /\ InitDerive
    /\ redis_up = TRUE
    /\ InitEma
    /\ InitCleaner

\* fill_gaps_on_startup on the key
StartupPassNext == StartupFill

StartupPassSpec == StartupPassInit /\ [][StartupPassNext]_vars

\* The gap filler alone, run on the key more than once
RefillNext ==
    \/ RepeatGapFillingMode
    \/ FillGapFetch
    \/ FillGapLrange
    \/ FillGapDelete
    \/ FillGapRpush
    \/ FillGapExpire
    \/ FillGapStoreError

RefillSpec == Init /\ [][RefillNext]_vars

\* main() with choice 3 on one DataIntegrityChecker: the integrity check,
\* then the gap-filling mode
CheckThenFillNext == RunFullIntegrityCheck \/ RefillNext

CheckThenFillSpec == Init /\ [][CheckThenFillNext]_vars

\* A batch over the keys, of the collector or of the checker
BatchInit ==
    /\ tf = "1m"
    /\ klines = [k \in Slots |-> "ok"]
    /\ history = << >>
    /\ ttl = 0
    /\ ws_pc = "startup"
    /\ InitPrograms
    /\ InitPipeline({KeySymbol})
    /\ InitBatch
    /\ InitDerive
    /\ redis_up = TRUE
    /\ InitEma
    /\ InitCleaner

BatchNext == BatchSubmit \/ BatchComplete \/ BatchCheckStart \/ BatchCheckKey

BatchSpec == BatchInit /\ [][BatchNext]_vars

----------------------------------------------------------------------------
(* Properties *)

TimestampSet(s) == {s[i].timestamp : i \in 1 .. Len(s)}

\* no program is between two Redis commands of one operation on the key
Quiescent ==
    /\ ck_pc \in {"idle", "fill"}
    /\ co_pc \in {"idle", "execute"}
    /\ ws_pc \in {"startup", "fetch_all", "fetch_failed", "live", "raised",
                 "update_lrange"}

\* C1: after any sequence of rewrites, live appends and gap fills on the
\* key, the stored list is strictly increasing by timestamp, so its length
\* is the number of distinct timestamps in it.
C1_SeriesStrictlyIncreasing ==
    Quiescent =>
        /\ StrictlyIncreasing(history)
        /\ Len(history) = Cardinality(TimestampSet(history))

\* C2: a candle the live path has appended is still in the list once the
\* append and a gap fill that ran beside it have both finished (every
\* fill_gap of the run returned True, the updater is back at its receive).
C2_LiveAppendSurvivesGapFill ==
    (/\ ck_pc = "idle"
     /\ ws_pc = "live"
     /\ report.status = "GAPS_FOUND"
     /\ ck_filled = Len(report.gaps))
        => appended \subseteq Range(history)

\* C3: a reader whose LRANGE runs while store_data is between its DEL and
\* its RPUSH gets the complete old list or the complete new list.
C3_ReaderSeesOldOrNewSeries ==
    [][(ck_runs' = ck_runs + 1 /\ co_pc = "rpush")
          => (history = co_old \/ history = co_df)]_vars

\* C4: when fill_gap returns False, the list is what it was when fill_gap
\* was entered (stated for a key on which only the checker has worked).
C4_FailedFillLeavesSeriesUnchanged ==
    (ws_pc = "startup" /\ co_runs = 0 /\ ck_ret = "False") => history = ck_start

WidePairs(s) ==
    {i \in 1 .. Len(s) - 1 : s[i + 1].timestamp > s[i].timestamp + Interval}

\* gaps (a list of <<start, end>>) is exactly the wide pairs of s, oldest first
GapsAreWidePairs(gaps, s) ==
    /\ Len(gaps) = Cardinality(WidePairs(s))
    /\ \A j \in 1 .. Len(gaps) : \E i \in WidePairs(s) :
          gaps[j] = <<s[i].timestamp + Interval, s[i + 1].timestamp>>
    /\ \A j \in 1 .. Len(gaps) - 1 : gaps[j][1] < gaps[j + 1][1]

ReportedPairs ==
    [j \in 1 .. Len(report.gaps) |->
        <<report.gaps[j].start_time, report.gaps[j].end_time>>]

\* C6: on a strictly increasing list both detectors emit the gap
\* (previous + interval, current) for exactly the adjacent pairs with
\* current > previous + interval, oldest first; a list with every interval
\* boundary present yields no gap.
C6_GapsAreExactlyTheWidePairs ==
    StrictlyIncreasing(history) =>
        /\ report.status # "NONE" =>
              /\ GapsAreWidePairs(ReportedPairs, history)
              /\ (WidePairs(history) = {}) = (report.status \in {"INTACT", "NO_DATA"})
        /\ ws_pc = "raised" => GapsAreWidePairs(ws_gaps, history)

C6_Witness ==
    /\ StrictlyIncreasing(history)
    /\ Len(history) = 3
    /\ history[2].timestamp = history[1].timestamp + Interval
    /\ history[3].timestamp = history[2].timestamp + (2 * Interval)
    /\ Len(report.gaps) = 1
    /\ report.gaps[1].start_time = history[2].timestamp + Interval
    /\ ws_pc = "raised"
    /\ Len(ws_gaps) = 1

\* C7: every reported gap has missing_candles = floor((end - start) /
\* interval), which is the number of interval boundaries from start up to
\* but not including end, none of which is stored; for 1m candles at 00:00,
\* 00:01 and 00:03 the one gap is start 00:02, end 00:03, missing 1.
C7_MissingCountIsFloor ==
    /\ \A j \in 1 .. Len(report.gaps) :
          LET g == report.gaps[j]
              between == {k \in Slots : g.start_time <= SlotTime(k)
                                           /\ SlotTime(k) < g.end_time}
          IN  /\ g.missing_candles * Interval <= g.end_time - g.start_time
              /\ g.end_time - g.start_time < (g.missing_candles + 1) * Interval
              /\ g.missing_candles = Cardinality(between)
              /\ \A k \in between : SlotTime(k) \notin TimestampSet(history)
    /\ (tf = "1m" /\ report.status # "NONE" /\ Timestamps(history) = <<0, 60, 180>>)
          => report.gaps = <<[start_time |-> 120, end_time |-> 180,
                              missing_candles |-> 1]>>

C7_Witness ==
    /\ tf = "1m"
    /\ Timestamps(history) = <<0, 60, 180>>
    /\ report.status = "GAPS_FOUND"

\* C8: whenever the last stored candle has last + interval < now, each
\* detector ends its gap list with the trailing gap (last + interval, now).
C8_TrailingGapEmitted ==
    (history # << >> /\ Last(SortByTimestamp(history)).timestamp + Interval < Now) =>
        LET next_time == Last(SortByTimestamp(history)).timestamp + Interval
        IN  /\ report.status # "NONE" =>
                  /\ report.gaps # << >>
                  /\ Last(report.gaps).start_time = next_time
                  /\ Last(report.gaps).end_time = Now
            /\ ws_pc \in {"raised", "fill_pass"} =>
                  /\ ws_gaps # << >>
                  /\ Last(ws_gaps) = <<next_time, Now>>

\* C9: no candle violating low <= open <= high and low <= close <= high is
\* ever in the stored list.
C9_NoInvalidCandleStored ==
    \A i \in 1 .. Len(history) : PriceIntegrity(history[i])

\* C10: a closed live event whose timestamp is not after the last stored
\* candle's is not appended, and once a closed event has been handled it is
\* such an event: delivering it again leaves the list as it is.
C10_StaleEventNotAppended ==
    /\ [][(/\ ws_pc = "update_rpush"
           /\ history # << >>
           /\ ev.k.timestamp <= Last(history).timestamp) => history' = history]_vars
    /\ []((ws_pc = "live" /\ received > 0 /\ ev.x /\ PriceIntegrity(ev.k))
            => (history # << >> /\ ev.k.timestamp <= Last(history).timestamp))

C10_Witness ==
    /\ ws_pc = "update_rpush"
    /\ received = 2
    /\ ev.k \in appended
    /\ history # << >>
    /\ Last(history) = ev.k

C12_BatchGivesOneOutcomePerKey ==
    /\ bt_pc = "collecting" =>
          completed_tasks + Cardinality(bt_futures) = total_tasks
    /\ bt_pc = "collected" =>
          /\ completed_tasks = total_tasks
          /\ total_tasks = Len(BatchSymbols) * 3
          /\ 0 <= success_count /\ success_count <= total_tasks
    /\ bt_pc = "checked" =>
          /\ Len(all_results) = total_tasks
          /\ \A i \in 1 .. Len(BatchSymbols), j \in 1 .. 3 :
                LET r == all_results[(3 * (i - 1)) + j]
                IN  /\ r.symbol = BatchSymbols[i]
                    /\ r.timeframe = TimeframeList[j]
                    /\ r.status \in {"INTACT", "GAPS_FOUND", "NO_DATA", "ERROR"}

C12_Witness ==
    /\ bt_pc = "checked"
    /\ all_results[1].status = "ERROR"
    /\ all_results[2].status = "GAPS_FOUND"
    /\ Len(all_results) = total_tasks

\* C13: when the gap filler is run a second time on the key, finds the gaps
\* the first run found and filled, and fills them again from the same
\* exchange data, the list is what the first run left.
C13_SecondFillChangesNothing ==
    (/\ ck_runs = 2
     /\ ck_pc = "idle"
     /\ report.gaps = ck_prev.gaps
     /\ ck_prev.filled = Len(ck_prev.gaps)
     /\ report.status = "GAPS_FOUND" => ck_filled = Len(report.gaps))
        => history = ck_prev.list

\* C14: when fill_gap has committed its merge, every timestamp that was both
\* in the list it read and among the candles it fetched is in the list once,
\* with the fetched candle.
C14_MergeKeepsFetchedCandleOnce ==
    ck_pc = "expire" =>
        \A t \in TimestampSet(ck_existing) \cap TimestampSet(ck_missing) :
            LET at == {i \in 1 .. Len(history) : history[i].timestamp = t}
            IN  /\ Cardinality(at) = 1
                /\ \A i \in at : history[i] \in Range(ck_missing)

\* C15: the detector does not accept a list with a timestamp stored twice:
\* its report for such a list is an error, not INTACT and not a gap list.
C15_DetectorRejectsDuplicates ==
    (report.status # "NONE" /\ ~StrictlyIncreasing(SortByTimestamp(history)))
        => report.status \notin {"INTACT", "GAPS_FOUND"}

\* C16: once the shutdown signal has been handled the pipeline accepts no
\* new feed event; no message is received and taken into processing, on
\* its way to being appended to the list, after the signal.
C16_NoEventAcceptedAfterSignal ==
    [][signalled => received' = received]_vars

\* C17: when the program has stopped after a shutdown signal, the
\* connection, monitor and periodic tasks have ended and the WebSocket and
\* the Redis clients of the manager that ran are closed.
C17_StoppedMeansEverythingClosed ==
    (signalled /\ loop_state = "closed")
        => /\ ~ConnAlive
           /\ \A t \in DOMAIN tasks : tasks[t] # "running"
           /\ websocket # "open"
           /\ \A c \in DOMAIN redis_conns : redis_conns[c] # "open"

\* C18: the delay slept before the reconnection that follows the n-th
\* consecutive failure is min(5 * 2^(n-1), 60) seconds.
C18_DelayIsCappedExponential ==
    (conn_pc = "sleep" /\ failures >= 1)
        => delay = (IF 5 * (2 ^ (failures - 1)) < 60
                    THEN 5 * (2 ^ (failures - 1)) ELSE 60)

\* the sixth consecutive failure is slept after for the capped 60 seconds
C18_Witness ==
    /\ conn_pc = "sleep"
    /\ failures = max_retries + 1
    /\ delay = 60

\* C19: the connection loop is left by itself only when running is false,
\* and a sleep after a failure is always followed by the loop test and so
\* by another attempt, however many attempts have failed.
C19_NeverGivesUpWhileRunning ==
    [][/\ (conn_pc \in {"loop", "handling", "sleep"} /\ conn_pc' = "exited")
            => ~running["main"]
       /\ (conn_pc = "sleep" /\ conn_pc' # conn_pc)
            => conn_pc' \in {"loop", "cancelled"}
       /\ (conn_pc = "loop" /\ running["main"] /\ conn_pc' # conn_pc)
            => conn_pc' \in {"handling", "sleep", "cancelled"}]_vars

\* after more failures in a row than max_retries the connection task is
\* back at its loop test with running true, about to try again
C19_Witness ==
    /\ running["main"]
    /\ failures > max_retries
    /\ conn_pc = "loop"

\* C20: the events of the key are taken one at a time in the order
\* delivered: a message is received only when the processing of the one
\* before, its read of the list and its append included, has finished.
C20_OneEventAtATime ==
    [][received' # received
          => /\ ws_pc = "live"
             /\ received' = received + 1]_vars

\* the second event is being handled, the first one's append in the list
C20_Witness ==
    /\ received = 2
    /\ ws_pc = "update_rpush"
    /\ Len(history) = 1
    /\ processed = 1

\* C21: a valid closed live event whose timestamp is more than two intervals
\* after the last stored candle's adds one entry to stats['data_gaps'] with
\* missed_candles = (difference div interval) - 1, any other message adds
\* none, and the candle of an event that had a gap recorded is in the list
\* when its processing ends.
C21_GapRecordedAndCandleAppended ==
    [][/\ received' = received => data_gaps' = data_gaps
       /\ received' # received =>
            LET diff == IF history = << >> THEN 0
                        ELSE ev'.k.timestamp - Last(history).timestamp
            IN  IF ev'.x /\ ev'.k.low <= ev'.k.high /\ diff > 2 * Interval
                THEN /\ Len(data_gaps') = Len(data_gaps) + 1
                     /\ SubSeq(data_gaps', 1, Len(data_gaps)) = data_gaps
                     /\ Last(data_gaps').missed_candles = (diff \div Interval) - 1
                     /\ Last(data_gaps').current_time = ev'.k.timestamp
                ELSE data_gaps' = data_gaps
       /\ (/\ ws_pc \in {"update_rpush", "update_expire"}
           /\ ws_pc' = "live"
           /\ data_gaps # << >>
           /\ Last(data_gaps).current_time = ev.k.timestamp)
            => ev.k \in Range(history')]_vars

\* an event three intervals after the last stored candle has been handled:
\* its gap entry counts two missed candles and its candle has been appended
C21_Witness ==
    /\ ws_pc = "live"
    /\ Len(data_gaps) = 1
    /\ data_gaps[1].missed_candles = 2
    /\ data_gaps[1].current_time = ev.k.timestamp
    /\ ev.k \in appended
    /\ Last(history) = ev.k

\* C22: no two operations that rewrite the whole list of the key are in
\* progress at the same time: the collector's store_data between its DEL and
\* its RPUSH, fill_gap between its read of the list and its RPUSH.
C22_RewritesOfAKeyAreSerialized ==
    ~(/\ co_pc = "rpush"
      /\ ck_pc \in {"delete", "rpush"})

\* C23: once a gap fill has committed, the ema fields of every candle of the
\* committed series are those computed over the merged, sorted series up to
\* that candle: a value over exactly the candles 1..i for a candle at
\* position i >= period, no value before.
C23_IndicatorsFromMergedSeries ==
    dv_pc = "filled" =>
        \A i \in 1 .. Len(dv_all) : \A period \in DOMAIN dv_all[i].ema :
            IF i >= period
            THEN dv_all[i].ema[period] =
                    [kind |-> "value",
                     basis |-> [j \in 1 .. i |-> dv_all[j].timestamp]]
            ELSE dv_all[i].ema[period].kind # "value"

\* C24: in the rows a write path has derived, a row with fewer than period
\* candles up to it has no ema field of that period, and a row with at
\* least period candles has one holding a value.
C24_ShortWindowLeavesEmaAbsent ==
    \A i \in 1 .. Len(dv_rows) : \A period \in periods :
        IF i < period
        THEN period \notin DOMAIN dv_rows[i].ema
        ELSE /\ period \in DOMAIN dv_rows[i].ema
             /\ dv_rows[i].ema[period].kind = "value"

\* C25: check_symbol_integrity returns exactly one of the five statuses and
\* never raises.  ERROR exactly when an exception occurred (Redis failed, or
\* an item raised something other than a JSON decode error); otherwise
\* NO_DATA exactly when the key has no entries, INVALID_DATA exactly when
\* entries exist and none parses, GAPS_FOUND exactly when two neighbouring
\* parsed candles are more than one interval apart, INTACT exactly when
\* candles exist and no such pair does.
C25_ExactlyOneStatus ==
    ck_runs > 0 =>
        LET parsed == {c \in Range(history) : "timestamp" \in DOMAIN c}
            foreign == Range(history) \ parsed
            exception == ~redis_up \/ \E x \in foreign : x.json # "invalid"
            gap == \E a, b \in parsed :
                       /\ b.timestamp > a.timestamp + Interval
                       /\ ~\E c \in parsed : /\ a.timestamp < c.timestamp
                                             /\ c.timestamp < b.timestamp
            expected == IF exception THEN "ERROR"
                        ELSE IF history = << >> THEN "NO_DATA"
                        ELSE IF parsed = {} THEN "INVALID_DATA"
                        ELSE IF gap THEN "GAPS_FOUND"
                        ELSE "INTACT"
        IN  /\ report.status \in {"NO_DATA", "INVALID_DATA", "GAPS_FOUND", "INTACT", "ERROR"}
            /\ report.status = expected

\* a list of undecodable entries only has been reported INVALID_DATA
C25_Witness ==
    /\ ck_runs > 0
    /\ redis_up
    /\ history # << >>
    /\ report.status = "INVALID_DATA"

\* C26: after any successful write to a history list (a rewrite or a live
\* append, the first append that creates the key included) the key carries a
\* retention expiry: when the updater is between two writes, a key that
\* holds candles has a time to live.
C26_WrittenKeyHasExpiry ==
    (ws_pc = "live" /\ history # << >>) => ttl > 0

\* C27: after save_to_redis (alone or from update_all_pairs) has stored EMA
\* data for a (symbol, timeframe), get_from_redis for that symbol and
\* timeframe returns it, with the same last_price and the same ema keys,
\* until the expiry elapses; nothing stored is the text of empty data.
C27_GetReturnsWhatWasSaved ==
    /\ \A st \in EmaPairs \X EmaTimeframes :
           (em_saved[st] # << >> /\ em_now < em_saved[st][1].at + expiry_seconds) =>
               LET got == get_from_redis(st[1], st[2])
                   data == em_saved[st][1].data
               IN  /\ DOMAIN got # {}
                   /\ got.last_price = data.last_price
                   /\ DOMAIN got.emas = DOMAIN data.emas
                   /\ got = data
    /\ Cardinality({st \in EmaPairs \X EmaTimeframes : em_saved[st] # << >>}) <= em_calls
    /\ \A st \in EmaPairs \X EmaTimeframes :
           em_saved[st] = << >> => DOMAIN get_from_redis(st[1], st[2]) = {}

\* two timeframes of one pair hold different data, both readable
C27_Witness ==
    \E symbol \in EmaPairs :
        /\ em_saved[<<symbol, "1h">>] # << >>
        /\ em_saved[<<symbol, "4h">>] # << >>
        /\ em_now > 0
        /\ DOMAIN get_from_redis(symbol, "1h") # {}
        /\ DOMAIN get_from_redis(symbol, "4h") # {}
        /\ get_from_redis(symbol, "1h").emas # get_from_redis(symbol, "4h").emas

\* C28: the integrity check and the startup gap scan treat a stored series of
\* exactly one candle the same way: once both have looked at it, the scan
\* goes for the full history exactly when the check does not report the
\* series intact.
C28_OneCandleTreatedAlike ==
    (Len(history) = 1 /\ ck_runs > 0 /\ ws_pc # "startup") =>
        ((ws_pc = "fetch_all") <=> (report.status # "INTACT"))

\* C29: when live collection starts (connect subscribes the monitored
\* symbols) the startup gap fill is over, and the fill ends only after going
\* through the keys of every monitored symbol.
C29_FillCoversMonitoredKeysBeforeLive ==
    [][/\ (conn_pc = "connect" /\ conn_pc' = "loop") => ws_pc = "live"
       /\ (main_pc = "fill" /\ ws_pc = "startup" /\ ws_pc' = "live") =>
              MonitoredSymbols \subseteq symbols]_vars

C31_FilledGapIsGone ==
    [][(ck_pc = "expire" /\ ck_pc' # "expire" /\ ck_ret' = "True") =>
          LET gap_info == Head(ck_gaps)
              after == check_symbol_integrity(history')
          IN  /\ \A i \in 1 .. Len(after.gaps) :
                     after.gaps[i].start_time # gap_info.start_time
              /\ (ck_pc' = "idle" /\ ck_filled' = Len(report.gaps)) =>
                     after.status = "INTACT"]_vars

\* C32: an integrity check never modifies the store: the step that produces
\* a report leaves the key's list, its order included, and its time to live
\* exactly as they were.
C32_CheckLeavesStoreAlone ==
    [][ck_runs' # ck_runs => (history' = history /\ ttl' = ttl)]_vars

\* a list that is not in timestamp order has been checked and a gap reported
\* from its sorted copy, and it is still in the order it was stored in
C32_Witness ==
    /\ ck_runs > 0
    /\ report.status = "GAPS_FOUND"
    /\ history # SortByTimestamp(SelectSeq(history, IsCandle))

\* C33: a live update never trims or alters history: every step of
\* update_redis leaves the key's list as it was or longer by exactly the
\* candle of the event in hand, put at its end.
C33_LiveUpdateOnlyAppends ==
    [][(ws_pc \in {"update_lrange", "update_rpush", "update_expire"}
            /\ ws_pc' # ws_pc) =>
          (history' = history \/ history' = Append(history, ev.k))]_vars

\* an update has appended a candle to a list that already held one, and
\* another event has been dropped as not newer
C33_Witness ==
    /\ ws_pc = "live"
    /\ appended # {}
    /\ Len(history) >= 2
    /\ Last(history) \in appended
    /\ processed = 2

\* C34: only closed candles reach the store on the live path: handling an
\* event whose closed flag is false changes neither the list nor its time to
\* live nor the processed counters, and leaves no update pending; an update
\* is only ever pending for a closed event.
C34_OnlyClosedCandlesAreStored ==
    [][/\ (received' # received /\ ~ev'.x) =>
              /\ history' = history /\ ttl' = ttl
              /\ processed' = processed
              /\ ws_pc' = "live"
       /\ ws_pc' \in {"update_lrange", "update_rpush", "update_expire"} => ev'.x]_vars

\* a sound event of a candle still forming has been handled: nothing was
\* counted as processed or as an error
C34_Witness ==
    /\ received > 0
    /\ ~ev.x
    /\ PriceIntegrity(ev.k)
    /\ ws_pc = "live"
    /\ processed = 0 /\ errors = 0

\* C35: for a stored series that is strictly increasing and aligned to the
\* interval, the report's total_candles plus the missing_candles of its gaps
\* is its expected_candles, and its status is INTACT exactly when its
\* coverage_percentage is 100.
C35_ReportCountsAddUp ==
    (ck_runs > 0 /\ history # << >> /\ StrictlyIncreasing(history)) =>
        LET missing[i \in 0 .. Len(report.gaps)] ==
                IF i = 0 THEN 0 ELSE missing[i - 1] + report.gaps[i].missing_candles
            coverage == coverage_percentage(report.total_candles, report.expected_candles)
        IN  /\ report.total_candles + missing[Len(report.gaps)] = report.expected_candles
            /\ (report.status = "INTACT") <=> (coverage[1] = 100 * coverage[2])

\* a series with two candles missing in one gap has been reported
C35_Witness ==
    /\ ck_runs > 0
    /\ StrictlyIncreasing(history)
    /\ Len(history) >= 2
    /\ Len(report.gaps) = 1
    /\ report.gaps[1].missing_candles = 2
    /\ report.expected_candles = report.total_candles + 2

\* C36: on one checker, whenever it is between two runs, the counters of a
\* timeframe hold the number of gaps and the sum of missing_candles of the
\* most recent report of the key of that timeframe.
C36_StatsAgreeWithLatestReport ==
    (ck_pc = "idle" /\ ck_runs > 0) =>
        LET missing[i \in 0 .. Len(report.gaps)] ==
                IF i = 0 THEN 0 ELSE missing[i - 1] + report.gaps[i].missing_candles
        IN  /\ gap_stats[tf].gaps = Len(report.gaps)
            /\ gap_stats[tf].missing_candles = missing[Len(report.gaps)]

\* C37: when the historical fetch for a key returns no candles, or a step
\* before the execution of the pipeline raises, process_symbol_interval
\* reports the key as failed and the key's list and its time to live are
\* left as they were: the run is over without any command sent.
C37_FailedCollectionLeavesKeyAlone ==
    [][(co_runs' # co_runs /\ (co_df' = << >> \/ co_ret' = "False")) =>
          /\ co_ret' = "False"
          /\ co_pc' = "idle"
          /\ history' = history /\ ttl' = ttl]_vars

\* the collector found nothing at the exchange for a key that holds candles:
\* it has reported failure and the candles are still there
C37_Witness ==
    /\ co_runs > 0
    /\ co_pc = "idle"
    /\ co_ret = "False"
    /\ \A k \in Slots : klines[k] = "none"
    /\ ck_runs = 0
    /\ history # << >>
    /\ ttl = OneYear

\* C38: every established WebSocket connection sets the retry counter to
\* 0, so the first reconnect delay after a connection is base_delay (5 s)
\* whatever the number of failures before it.
C38_ConnectionResetsBackoff ==
    [][/\ (conn_pc # "handling" /\ conn_pc' = "handling") => retry_count' = 0
       /\ (conn_pc = "handling" /\ conn_pc' = "sleep") =>
              (retry_count' = 1 /\ delay' = base_delay)]_vars

\* connected again after enough failures to have slept the capped delay
C38_Witness ==
    /\ conn_pc = "handling"
    /\ websocket = "open"
    /\ delay = DelayCap
    /\ retry_count = 0

\* C39: graceful_shutdown is started at most once in a run of the program,
\* whenever the signals arrive, the final cleanup block included.
C39_ShutdownStartedAtMostOnce ==
    shutdown_starts <= 1

\* C40: the cleaner removes keys only after choice 1 confirmed with YES or
\* choice 2 confirmed with yes in any case; with any other choice or answer
\* the database is as it was scanned, and the crypto-only deletion leaves
\* every key that does not begin with "crypto:" in place.  (cl_keys is the
\* database as the connected cleaner scanned it at its start.)
C40_NothingDeletedUnconfirmed ==
    LET all_confirmed == cl_choice = <<"1">> /\ cl_confirm = <<"Y", "E", "S">>
        crypto_confirmed ==
            /\ cl_choice = <<"2">>
            /\ cl_confirm \in {<<a, b, c>> : a \in {"y", "Y"}, b \in {"e", "E"},
                                              c \in {"s", "S"}}
        other(db) == {key \in db : Len(key) < 2 \/ key[1] # "crypto"}
    IN  (redis_up /\ cl_pc # "start") =>
          /\ cl_db \subseteq cl_keys
          /\ ~(all_confirmed \/ crypto_confirmed) => cl_db = cl_keys
          /\ ~all_confirmed => other(cl_db) = other(cl_keys)

\* the crypto data of a mixed database has been deleted after "Yes": the
\* other keys, the ones that merely look like crypto keys too, are there
C40_Witness ==
    /\ cl_pc = "done"
    /\ cl_choice = <<"2">>
    /\ cl_confirm = <<"Y", "e", "s">>
    /\ cl_keys = KeyNames
    /\ cl_db = {<<"crypto">>, <<"CRYPTO", "BTCUSDT">>, <<"ema", "BTC/USDT_1m">>}

====
